---- MODULE Spec2Model ----
(***************************************************************************)
(* State-machine model of Garfield::ComponentAnalyticField                 *)
(* (Source/ComponentAnalyticField.cc): the geometry mutators, the lazy     *)
(* Prepare pipeline (CellCheck, CellType, Setup/Charge, PrepareStrips),    *)
(* the field queries and the readout bookkeeping.                          *)
(*                                                                         *)
(* Coordinates, diameters, voltages and periods are small integers; every  *)
(* comparison of the source that involves d/2 is written with both sides   *)
(* doubled, so the integer arithmetic is exact.  The dense solver          *)
(* Numerics::Deqinv, the signal-matrix set-up and the medium lookup are     *)
(* external to the file; their outcomes are drawn from small sets.         *)
(***************************************************************************)
EXTENDS Integers, Sequences, FiniteSets, TLC

VARIABLES caf, last, nCalls

vars == <<caf, last, nCalls>>

(***************************************************************************)
(* Bounds of the model.                                                    *)
(***************************************************************************)
\* Largest length of the wire vector m_w.
MaxWires == 2
\* Largest number of accepted mutator calls in one behaviour.
MaxCalls == 4
\* Largest number of strips and pixels added in one behaviour.
MaxStrips == 1

(***************************************************************************)
(* Input domains of the calls.                                             *)
(***************************************************************************)
WirePlaces == {<<0, 1>>, <<3, 0>>}
PlaneCoords == {-2, 2}
Periods == {4, 8}
PeriodsY == {4}
TubeRadii == {2}
TubeEdges == {0, 9}
BadTubeEdges == {-1, 1, 2}
WireLabel == "s"
StripLabel == "s"
PlaneLabel == "p"
TubeLabel == "t"
ReadoutLabels == {"s"}
\* A label that is never registered as a readout group.
OtherLabel == "u"
QueryXs == {0, 5}
Media == {"null", "solid", "gas"}

(***************************************************************************)
(* Arithmetic helpers.                                                     *)
(***************************************************************************)
Abs(a) == IF a < 0 THEN -a ELSE a

MinOf(a, b) == IF a < b THEN a ELSE b

MaxOf(a, b) == IF a > b THEN a ELSE b

\* int(round(a / b)) for b > 0: C round() rounds half-way cases away from zero.
RoundDiv(a, b) ==
  IF a >= 0 THEN (2 * a + b) \div (2 * b) ELSE -((2 * (-a) + b) \div (2 * b))

\* "v < Small" and "v > Small": Small is a tiny positive double, so on the
\* integers these are v <= 0 and v > 0.
LessThanSmall(v) == v <= 0

GreaterThanSmall(v) == v > 0

(***************************************************************************)
(* The object after construction (constructor -> CellInit).                *)
(***************************************************************************)
NoPlane == [type |-> "?", ind |-> -1, strips1 |-> <<>>, strips2 |-> <<>>,
            pixels |-> <<>>]

CellInit ==
  [m_cellset |-> FALSE, m_sigset |-> FALSE,
   m_scellType |-> "A  ", m_cellType |-> "A00",
   vmin |-> 0, vmax |-> 0,
   m_xPeriodic |-> FALSE, m_yPeriodic |-> FALSE,
   m_perx |-> FALSE, m_pery |-> FALSE, m_sx |-> 1, m_sy |-> 1,
   m_readout |-> <<>>, m_scellTypeFourier |-> "A  ",
   m_nWires |-> 0, m_w |-> <<>>, m_ch3d |-> <<>>,
   m_v0 |-> 0,
   planes |-> [i \in 0..4 |-> NoPlane],
   m_ynplan |-> [i \in 0..3 |-> FALSE],
   m_coplan |-> [i \in 0..3 |-> 0],
   m_vtplan |-> [i \in 0..3 |-> 0],
   m_tube |-> FALSE, m_ntube |-> 0, m_cotube |-> 1, m_vttube |-> 0]

\* Wire i of the source (0-based) in the 1-based sequence m_w.
Wire(s, i) == s.m_w[i + 1]

(***************************************************************************)
(* Mutators.  Each operator maps the object s and the call's arguments to  *)
(* the object after the call; a rejected call returns s itself.            *)
(***************************************************************************)
\* The parameter checks at the head of AddWire.
AddWireRejects(a) ==
  \/ a.diameter <= 0
  \/ a.tension <= 0
  \/ a.rho <= 0
  \/ a.length <= 0
  \/ a.ntrap <= 0

NewWire(a) ==
  [x |-> a.x, y |-> a.y, d |-> a.diameter, v |-> a.voltage, u |-> a.length,
   type |-> a.label, e |-> 0, ind |-> -1, nTrap |-> a.ntrap]

\* AddWire as it would be without lines 372-374.
AddWireKeepsSolve(s, a) ==
  IF AddWireRejects(a) THEN s
  ELSE [s EXCEPT !.m_w = Append(s.m_w, NewWire(a)),
                 !.m_nWires = s.m_nWires + 1]

AddWire(s, a) ==
  IF AddWireRejects(a) THEN s
  ELSE [s EXCEPT !.m_w = Append(s.m_w, NewWire(a)),
                 !.m_nWires = s.m_nWires + 1,
                 !.m_cellset = FALSE,
                 !.m_sigset = FALSE]

\* The parameter checks at the head of AddTube.
AddTubeRejects(a) ==
  \/ a.radius <= 0
  \/ (a.nEdges < 3 /\ a.nEdges # 0)

\* AddTube as it would be without line 415.
AddTubeKeepsSignals(s, a) ==
  IF AddTubeRejects(a) THEN s
  ELSE [s EXCEPT !.m_tube = TRUE,
                 !.m_cotube = a.radius,
                 !.m_vttube = a.voltage,
                 !.m_ntube = a.nEdges,
                 !.planes[4].type = a.label,
                 !.planes[4].ind = -1,
                 !.m_cellset = FALSE]

AddTube(s, a) ==
  IF AddTubeRejects(a) THEN s
  ELSE [s EXCEPT !.m_tube = TRUE,
                 !.m_cotube = a.radius,
                 !.m_vttube = a.voltage,
                 !.m_ntube = a.nEdges,
                 !.planes[4].type = a.label,
                 !.planes[4].ind = -1,
                 !.m_cellset = FALSE,
                 !.m_sigset = FALSE]

\* AddPlaneX (lo = 0) and AddPlaneY (lo = 2): the two functions differ only
\* in the pair of slots they use.
AddPlaneRejects(s, lo) == s.m_ynplan[lo] /\ s.m_ynplan[lo + 1]

\* AddPlaneX / AddPlaneY as they would be if the slot were chosen by the
\* number of planes added so far: the upper slot whenever one of the two
\* is taken.
AddPlaneByCount(s, lo, a) ==
  IF AddPlaneRejects(s, lo) THEN s
  ELSE LET slot == IF s.m_ynplan[lo] \/ s.m_ynplan[lo + 1] THEN lo + 1 ELSE lo
       IN [s EXCEPT !.m_ynplan[slot] = TRUE,
                    !.m_coplan[slot] = a.co,
                    !.m_vtplan[slot] = a.v,
                    !.planes[slot].type = a.lab,
                    !.planes[slot].ind = -1,
                    !.m_cellset = FALSE,
                    !.m_sigset = FALSE]

AddPlane(s, lo, a) ==
  IF AddPlaneRejects(s, lo) THEN s
  ELSE LET slot == IF s.m_ynplan[lo] THEN lo + 1 ELSE lo
       IN [s EXCEPT !.m_ynplan[slot] = TRUE,
                    !.m_coplan[slot] = a.co,
                    !.m_vtplan[slot] = a.v,
                    !.planes[slot].type = a.lab,
                    !.planes[slot].ind = -1,
                    !.m_cellset = FALSE,
                    !.m_sigset = FALSE]

AddPlaneX(s, a) == AddPlane(s, 0, a)

AddPlaneY(s, a) == AddPlane(s, 2, a)

\* The slot a strip or pixel at coordinate c is attached to: the lower slot
\* unless the upper plane is present and strictly closer.
NearestPlane(s, lo, c) ==
  IF s.m_ynplan[lo + 1]
     /\ Abs(s.m_coplan[lo + 1] - c) < Abs(s.m_coplan[lo] - c)
  THEN lo + 1 ELSE lo

\* direction is "1" for the in-plane transverse direction (y on an x-plane,
\* x on a y-plane), "z" for z, anything else is invalid.
AddStripRejects(s, lo, a) ==
  \/ (~s.m_ynplan[lo] /\ ~s.m_ynplan[lo + 1])
  \/ a.direction \notin {"1", "z"}
  \/ LessThanSmall(Abs(a.smax - a.smin))

NewStrip(a) ==
  [type |-> a.label, ind |-> -1,
   smin |-> MinOf(a.smin, a.smax), smax |-> MaxOf(a.smin, a.smax),
   gap |-> IF GreaterThanSmall(a.gap) THEN a.gap ELSE -1]

AddStripOnPlane(s, lo, a) ==
  IF AddStripRejects(s, lo, a) THEN s
  ELSE LET iplane == NearestPlane(s, lo, a.co)
       IN IF a.direction = "1"
          THEN [s EXCEPT !.planes[iplane].strips1 = Append(@, NewStrip(a))]
          ELSE [s EXCEPT !.planes[iplane].strips2 = Append(@, NewStrip(a))]

AddStripOnPlaneX(s, a) == AddStripOnPlane(s, 0, a)

AddStripOnPlaneY(s, a) == AddStripOnPlane(s, 2, a)

AddPixelRejects(s, lo, a) ==
  \/ (~s.m_ynplan[lo] /\ ~s.m_ynplan[lo + 1])
  \/ LessThanSmall(Abs(a.smax - a.smin))
  \/ LessThanSmall(Abs(a.zmax - a.zmin))

NewPixel(a) ==
  [type |-> a.label, ind |-> -1,
   smin |-> MinOf(a.smin, a.smax), smax |-> MaxOf(a.smin, a.smax),
   zmin |-> MinOf(a.zmin, a.zmax), zmax |-> MaxOf(a.zmin, a.zmax),
   gap |-> IF GreaterThanSmall(a.gap) THEN a.gap ELSE -1]

AddPixelOnPlane(s, lo, a) ==
  IF AddPixelRejects(s, lo, a) THEN s
  ELSE LET iplane == NearestPlane(s, lo, a.co)
       IN [s EXCEPT !.planes[iplane].pixels = Append(@, NewPixel(a))]

AddPixelOnPlaneX(s, a) == AddPixelOnPlane(s, 0, a)

AddPixelOnPlaneY(s, a) == AddPixelOnPlane(s, 2, a)

\* UpdatePeriodicity: m_perx / m_pery follow m_xPeriodic / m_yPeriodic, and
\* the cached solve is dropped only when one of them changes.
UpdatePeriodicity(s) ==
  LET sX == IF s.m_perx /\ ~s.m_xPeriodic
            THEN [s EXCEPT !.m_perx = FALSE, !.m_cellset = FALSE,
                           !.m_sigset = FALSE]
            ELSE IF ~s.m_perx /\ s.m_xPeriodic /\ ~LessThanSmall(s.m_sx)
            THEN [s EXCEPT !.m_perx = TRUE, !.m_cellset = FALSE,
                           !.m_sigset = FALSE]
            ELSE s
  IN IF sX.m_pery /\ ~sX.m_yPeriodic
     THEN [sX EXCEPT !.m_pery = FALSE, !.m_cellset = FALSE,
                     !.m_sigset = FALSE]
     ELSE IF ~sX.m_pery /\ sX.m_yPeriodic /\ ~LessThanSmall(sX.m_sy)
     THEN [sX EXCEPT !.m_pery = TRUE, !.m_cellset = FALSE,
                     !.m_sigset = FALSE]
     ELSE sX

SetPeriodicityRejects(p) == LessThanSmall(p)

\* SetPeriodicityX as it would be with the flag set ahead of the check.
SetPeriodicityXFlagFirst(s, p) ==
  IF SetPeriodicityRejects(p) THEN [s EXCEPT !.m_xPeriodic = TRUE]
  ELSE UpdatePeriodicity([s EXCEPT !.m_xPeriodic = TRUE, !.m_sx = p])

SetPeriodicityX(s, p) ==
  IF SetPeriodicityRejects(p) THEN s
  ELSE UpdatePeriodicity([s EXCEPT !.m_xPeriodic = TRUE, !.m_sx = p])

SetPeriodicityY(s, p) ==
  IF SetPeriodicityRejects(p) THEN s
  ELSE UpdatePeriodicity([s EXCEPT !.m_yPeriodic = TRUE, !.m_sy = p])

\* Position of label in the readout list (0-based), or -1.
ReadoutIndex(s, label) ==
  IF \E k \in 1..Len(s.m_readout) : s.m_readout[k] = label
  THEN (CHOOSE k \in 1..Len(s.m_readout) : s.m_readout[k] = label) - 1
  ELSE -1

AddReadout(s, label) ==
  IF ReadoutIndex(s, label) >= 0 THEN s
  ELSE [s EXCEPT !.m_readout = Append(@, label), !.m_sigset = FALSE]

\* Lines 759-769: a three-dimensional point charge in the plane z = 0; the
\* solved flags are left as they are.
AddCharge(s, x, y) == [s EXCEPT !.m_ch3d = Append(@, [x |-> x, y |-> y])]

(***************************************************************************)
(* Accessors.                                                              *)
(***************************************************************************)
GetWire(s, i) ==
  IF i < 0 \/ i >= s.m_nWires
  THEN [ok |-> FALSE]
  ELSE [ok |-> TRUE, x |-> Wire(s, i).x, y |-> Wire(s, i).y,
        diameter |-> Wire(s, i).d, voltage |-> Wire(s, i).v,
        label |-> Wire(s, i).type, length |-> Wire(s, i).u,
        charge |-> Wire(s, i).e, ntrap |-> Wire(s, i).nTrap]

(***************************************************************************)
(* InTube.  The round tube (n = 0) and the square (n = 4, the corners on   *)
(* the axes at distance a) are exact.  For the other polygons the test is  *)
(* r * cos(pi/n - phi) > a * cos(pi/n); a point with r > a is outside for   *)
(* every n and a point within the inscribed circle is inside.  The wires   *)
(* and query points of this model lie at the centre or at r > a, where the *)
(* two coincide with the source.                                           *)
(***************************************************************************)
InTube(x0, y0, a, n) ==
  IF x0 = 0 /\ y0 = 0 THEN TRUE
  ELSE IF n = 0 THEN ~(x0 * x0 + y0 * y0 > a * a)
  ELSE IF n < 0 \/ n = 1 \/ n = 2 THEN FALSE
  ELSE IF n = 4 THEN ~(Abs(x0) + Abs(y0) > a)
  ELSE ~(x0 * x0 + y0 * y0 > a * a)

(***************************************************************************)
(* CellCheck, in the order of the source.                                  *)
(***************************************************************************)
\* Lines 1248-1321: with periodicity sp on the axis whose planes use slots
\* lo and lo + 1, both plane coordinates are moved to the basic period and
\* the periodicity is cancelled when the two planes do not fit it.
FoldPlanes(s, lo, sp) ==
  LET both == s.m_ynplan[lo] /\ s.m_ynplan[lo + 1]
      c1 == s.m_coplan[lo] - sp * RoundDiv(s.m_coplan[lo], sp)
      c2 == s.m_coplan[lo + 1] - sp * RoundDiv(s.m_coplan[lo + 1], sp)
      n1 == IF both /\ c1 = c2 /\ c1 > 0 THEN c1 - sp ELSE c1
      n2 == IF both /\ c1 = c2 /\ ~(c1 > 0) THEN c2 + sp ELSE c2
  IN [co1 |-> n1, co2 |-> n2,
      cancel |-> both /\ (Abs(n2 - n1) # sp
                          \/ s.m_vtplan[lo] # s.m_vtplan[lo + 1])]

CheckPlanesX(s) ==
  IF ~s.m_perx THEN s
  ELSE LET f == FoldPlanes(s, 0, s.m_sx)
       IN [s EXCEPT !.m_coplan[0] = f.co1, !.m_coplan[1] = f.co2,
                    !.m_perx = ~f.cancel]

CheckPlanesY(s) ==
  IF ~s.m_pery THEN s
  ELSE LET f == FoldPlanes(s, 2, s.m_sy)
       IN [s EXCEPT !.m_coplan[2] = f.co1, !.m_coplan[3] = f.co2,
                    !.m_pery = ~f.cancel]

\* Lines 1323-1333: the inner loop runs over j = 2 only (j < 3).
CheckCrossingPlanes(s) ==
  IF \E i \in 0..1 : s.m_ynplan[i] /\ s.m_ynplan[2]
                     /\ s.m_vtplan[i] # s.m_vtplan[2]
  THEN [s EXCEPT !.m_ynplan[2] = FALSE]
  ELSE s

\* The ordering step as it would be without lines 1359-1361.
OrderPlanesKeepsRecords(s, lo) ==
  IF ~(s.m_ynplan[lo] /\ s.m_ynplan[lo + 1]) THEN s
  ELSE IF s.m_coplan[lo] = s.m_coplan[lo + 1]
       THEN [s EXCEPT !.m_ynplan[lo + 1] = FALSE]
  ELSE IF s.m_coplan[lo] > s.m_coplan[lo + 1]
       THEN [s EXCEPT !.m_coplan[lo] = s.m_coplan[lo + 1],
                      !.m_coplan[lo + 1] = s.m_coplan[lo],
                      !.m_vtplan[lo] = s.m_vtplan[lo + 1],
                      !.m_vtplan[lo + 1] = s.m_vtplan[lo]]
  ELSE s

\* Lines 1336-1364 for one axis: coinciding planes lose the upper one,
\* planes in the wrong order are interchanged.
OrderPlanes(s, lo) ==
  IF ~(s.m_ynplan[lo] /\ s.m_ynplan[lo + 1]) THEN s
  ELSE IF s.m_coplan[lo] = s.m_coplan[lo + 1]
       THEN [s EXCEPT !.m_ynplan[lo + 1] = FALSE]
  ELSE IF s.m_coplan[lo] > s.m_coplan[lo + 1]
       THEN [s EXCEPT !.m_coplan[lo] = s.m_coplan[lo + 1],
                      !.m_coplan[lo + 1] = s.m_coplan[lo],
                      !.m_vtplan[lo] = s.m_vtplan[lo + 1],
                      !.m_vtplan[lo + 1] = s.m_vtplan[lo],
                      !.planes[lo] = s.planes[lo + 1],
                      !.planes[lo + 1] = s.planes[lo]]
  ELSE s

\* Lines 1366-1413: the first m_nWires wires are moved to the basic period.
\* With a tube and phi-periodicity the source shifts a wire's polar angle
\* by 180 * sy * round(pi * phi / (180 * sy)) / pi, and only when
\* round((pi / phi) / (180 * sy)) is not 0; for the lattice points of this
\* model that shift is 0, so the wires stay where they are.
FoldWires(s) ==
  [s EXCEPT !.m_w =
     [k \in 1..Len(s.m_w) |->
        IF k > s.m_nWires THEN s.m_w[k]
        ELSE [s.m_w[k] EXCEPT
                !.x = IF s.m_perx THEN @ - s.m_sx * RoundDiv(@, s.m_sx) ELSE @,
                !.y = IF s.m_pery /\ ~s.m_tube
                      THEN @ - s.m_sy * RoundDiv(@, s.m_sy) ELSE @]]]

\* Lines 1416-1422: wires at or below plane p (p = 0, 1: in x; 2, 3: in y).
CountBelow(s, p) ==
  Cardinality({i \in 0..(s.m_nWires - 1) :
                 /\ s.m_ynplan[p]
                 /\ (IF p < 2 THEN Wire(s, i).x ELSE Wire(s, i).y)
                      <= s.m_coplan[p]})

\* Lines 1425-1477 for one axis, on the record a of the two presence flags
\* (lo, hi) and the two markers (ip1, ip2), which start as the counts and
\* are overwritten by -1 / +1; half is int(m_nWires) / 2.
KeepFirst(a, half) ==
  [a EXCEPT !.hi = IF a.ip1 > half THEN FALSE ELSE @,
            !.ip1 = IF a.ip1 > half THEN -1 ELSE 1]

KeepSecond(a, half) ==
  [a EXCEPT !.lo = IF a.ip2 < half THEN FALSE ELSE @,
            !.ip2 = IF a.ip2 < half THEN 1 ELSE -1]

KeepOfBoth(a, half) ==
  IF a.lo /\ a.hi THEN KeepSecond(KeepFirst(a, half), half) ELSE a

KeepOfLower(a, half) ==
  IF a.lo /\ ~a.hi THEN [a EXCEPT !.ip1 = IF a.ip1 > half THEN -1 ELSE 1]
  ELSE a

KeepOfUpper(a, half) ==
  IF a.hi /\ ~a.lo THEN [a EXCEPT !.ip2 = IF a.ip2 < half THEN 1 ELSE -1]
  ELSE a

NumberingDecision(s, lo) ==
  KeepOfUpper(
    KeepOfLower(
      KeepOfBoth([lo |-> s.m_ynplan[lo], hi |-> s.m_ynplan[lo + 1],
                  ip1 |-> CountBelow(s, lo), ip2 |-> CountBelow(s, lo + 1)],
                 s.m_nWires \div 2),
      s.m_nWires \div 2),
    s.m_nWires \div 2)

\* Lines 1480-1510 for one axis: the plane is renumbered into the other slot.
MoveToUpper(s, lo) ==
  [s EXCEPT !.m_ynplan[lo] = FALSE,
            !.m_ynplan[lo + 1] = TRUE,
            !.m_coplan[lo + 1] = s.m_coplan[lo],
            !.m_vtplan[lo + 1] = s.m_vtplan[lo],
            !.planes[lo + 1] = s.planes[lo]]

MoveToLower(s, lo) ==
  [s EXCEPT !.m_ynplan[lo + 1] = FALSE,
            !.m_ynplan[lo] = TRUE,
            !.m_coplan[lo] = s.m_coplan[lo + 1],
            !.m_vtplan[lo] = s.m_vtplan[lo + 1],
            !.planes[lo] = s.planes[lo + 1]]

ApplyNumbering(s, lo, a) ==
  IF a.ip1 = -1 /\ a.ip2 = 1 THEN MoveToLower(MoveToUpper(s, lo), lo)
  ELSE IF a.ip1 = -1 THEN MoveToUpper(s, lo)
  ELSE IF a.ip2 = 1 THEN MoveToLower(s, lo)
  ELSE s

AdaptNumbering(s, lo) ==
  ApplyNumbering([s EXCEPT !.m_ynplan[lo] = NumberingDecision(s, lo).lo,
                           !.m_ynplan[lo + 1] = NumberingDecision(s, lo).hi],
                 lo, NumberingDecision(s, lo))

\* Lines 1514-1545: wire i lies outside the planes or the tube, or is wider
\* than a period.
WrongPosition(s, i) ==
  LET w == Wire(s, i)
      outside ==
        \/ (s.m_ynplan[0] /\ 2 * w.x - w.d <= 2 * s.m_coplan[0])
        \/ (s.m_ynplan[1] /\ 2 * w.x + w.d >= 2 * s.m_coplan[1])
        \/ (s.m_ynplan[2] /\ 2 * w.y - w.d <= 2 * s.m_coplan[2])
        \/ (s.m_ynplan[3] /\ 2 * w.y + w.d >= 2 * s.m_coplan[3])
  IN IF s.m_tube
     THEN outside \/ ~InTube(w.x, w.y, s.m_cotube, s.m_ntube)
     ELSE outside \/ (s.m_perx /\ w.d >= s.m_sx) \/ (s.m_pery /\ w.d >= s.m_sy)

\* Cartesian2Polar for a point of the x-axis: the angle in degrees.
AxisAngle(x) == IF x < 0 THEN 180 ELSE 0

\* 100000 * cos(k degrees), k = 0 .. 8, rounded down.
CosTable == <<100000, 99984, 99939, 99862, 99756, 99619, 99452, 99254, 99026>>

\* Lines 1552-1576: wires i and j overlap.  Inside a tube without
\* phi-periodicity the separations are the plain differences.  With
\* phi-periodicity both wires are turned by a multiple of sy degrees into
\* the basic sector first; the wires of this model lie on the x-axis, so
\* the angles are whole degrees and the squared separation is
\* ri^2 + rj^2 - 2 ri rj cos(ai - aj).
Overlap(s, i, j) ==
  LET wi == Wire(s, i)
      wj == Wire(s, j)
      dx == Abs(wi.x - wj.x)
      dy == Abs(wi.y - wj.y)
      xsepar == IF s.m_tube THEN wi.x - wj.x
                ELSE IF s.m_perx THEN dx - s.m_sx * RoundDiv(dx, s.m_sx)
                ELSE dx
      ysepar == IF s.m_tube THEN wi.y - wj.y
                ELSE IF s.m_pery THEN dy - s.m_sy * RoundDiv(dy, s.m_sy)
                ELSE dy
      ai == AxisAngle(wi.x) - s.m_sy * RoundDiv(AxisAngle(wi.x), s.m_sy)
      aj == AxisAngle(wj.x) - s.m_sy * RoundDiv(AxisAngle(wj.x), s.m_sy)
      ri == Abs(wi.x)
      rj == Abs(wj.x)
      sumd2 == (wi.d + wj.d) * (wi.d + wj.d)
  IN IF s.m_tube /\ s.m_pery
     THEN 4 * (100000 * (ri * ri + rj * rj)
               - 2 * ri * rj * CosTable[Abs(ai - aj) + 1]) < 100000 * sumd2
     ELSE 4 * (xsepar * xsepar + ysepar * ysepar) < sumd2

\* The array wrong[] after both passes: a wire is dropped for its position,
\* or because it overlaps an earlier wire that is kept.
RECURSIVE Wrong(_, _)
Wrong(s, j) ==
  \/ WrongPosition(s, j)
  \/ \E i \in 0..(j - 1) : ~Wrong(s, i) /\ Overlap(s, i, j)

\* Indices of the wires that are kept, in increasing order.
RECURSIVE KeptUpTo(_, _)
KeptUpTo(s, n) ==
  IF n = 0 THEN <<>>
  ELSE IF Wrong(s, n - 1) THEN KeptUpTo(s, n - 1)
  ELSE Append(KeptUpTo(s, n - 1), n - 1)

\* Lines 1594-1610: the kept wires are copied to the front of m_w and
\* m_nWires is set to their number; the vector itself keeps its length.
RemoveWrongWires(s) ==
  LET kept == KeptUpTo(s, s.m_nWires)
  IN [s EXCEPT !.m_nWires = Len(kept),
               !.m_w = [k \in 1..Len(s.m_w) |->
                          IF k <= Len(kept) THEN Wire(s, kept[k])
                          ELSE s.m_w[k]]]

\* Lines 1613-1618.
NumberOfElements(s) ==
  s.m_nWires + Cardinality({p \in 0..3 : s.m_ynplan[p]})
  + (IF s.m_tube THEN 1 ELSE 0)

\* Lines 1631-1712, the voltage range only: the wires from the last to the
\* first, then the planes, then the tube.  r is [set, lo, hi].
VoltInclude(r, v) ==
  IF r.set THEN [set |-> TRUE, lo |-> MinOf(r.lo, v), hi |-> MaxOf(r.hi, v)]
  ELSE [set |-> TRUE, lo |-> v, hi |-> v]

RECURSIVE VoltWires(_, _, _)
VoltWires(s, i, r) ==
  IF i < 0 THEN r ELSE VoltWires(s, i - 1, VoltInclude(r, Wire(s, i).v))

RECURSIVE VoltPlanes(_, _, _)
VoltPlanes(s, p, r) ==
  IF p > 3 THEN r
  ELSE VoltPlanes(s, p + 1,
                  IF s.m_ynplan[p] THEN VoltInclude(r, s.m_vtplan[p]) ELSE r)

VoltageRange(s) ==
  LET r == VoltPlanes(s, 0, VoltWires(s, s.m_nWires - 1,
                                      [set |-> FALSE, lo |-> 0, hi |-> 0]))
  IN IF s.m_tube
     THEN [set |-> TRUE, lo |-> MinOf(r.lo, s.m_vttube),
           hi |-> MaxOf(r.hi, s.m_vttube)]
     ELSE r

\* Lines 1234-1510: the planes and wires as the two passes over the wires
\* find them.
CellCheckPlaced(s) ==
  AdaptNumbering(AdaptNumbering(
    FoldWires(
      OrderPlanes(OrderPlanes(
        CheckCrossingPlanes(CheckPlanesY(CheckPlanesX(s))), 0), 2)), 0), 2)

\* Lines 1234-1610: everything CellCheck does to the geometry.
CellCheckPrune(s) == RemoveWrongWires(CellCheckPlaced(s))

\* CellCheck as it would be without the test of lines 1758-1764.
CellCheckAnyVoltages(p, r) ==
  IF NumberOfElements(p) < 2 THEN [s |-> p, ok |-> FALSE]
  ELSE [s |-> [p EXCEPT !.vmin = r.lo, !.vmax = r.hi], ok |-> TRUE]

\* Lines 1613-1768 on the pruned cell p with its voltage range r.
CellCheckResult(p, r) ==
  IF NumberOfElements(p) < 2 THEN [s |-> p, ok |-> FALSE]
  ELSE [s |-> [p EXCEPT !.vmin = r.lo, !.vmax = r.hi],
        ok |-> ~(r.lo = r.hi \/ ~r.set)]

CellCheckPruned(p) == CellCheckResult(p, VoltageRange(p))

\* CellCheck: [s |-> the object afterwards, ok |-> the value returned].
\* The bounding box (xmin .. zmax) is not part of the model.
CellCheck(s) == CellCheckPruned(CellCheckPrune(s))

(***************************************************************************)
(* CellType: the rules in the order of the source.  The result is          *)
(* [s |-> the object afterwards, ok |-> the value returned].               *)
(***************************************************************************)
SetType(s, scell, cell) == [s EXCEPT !.m_scellType = scell, !.m_cellType = cell]

PlaneGapX(s) == Abs(s.m_coplan[1] - s.m_coplan[0])

PlaneGapY(s) == Abs(s.m_coplan[3] - s.m_coplan[2])

\* Lines 1773-1800.
CellTypeTube(s) ==
  IF s.m_ntube = 0
  THEN (IF s.m_pery THEN SetType(s, "D2 ", "D20") ELSE SetType(s, "D1 ", "D10"))
  ELSE IF s.m_ntube >= 3 /\ s.m_ntube <= 8
  THEN (IF s.m_pery THEN SetType(s, "D4 ", "D40") ELSE SetType(s, "D3 ", "D30"))
  ELSE [SetType(s, "D3 ", "D30") EXCEPT !.m_ntube = 0]

\* CellType as it would be with only the cells without periodicity and
\* without facing planes recognised.
CellTypeOnlyA(s) ==
  IF ~(s.m_perx \/ s.m_pery) /\ ~(s.m_ynplan[0] /\ s.m_ynplan[1])
     /\ ~(s.m_ynplan[2] /\ s.m_ynplan[3])
  THEN [s |-> SetType(s, "A  ", "A00"), ok |-> TRUE]
  ELSE [s |-> s, ok |-> FALSE]

\* Lines 1802-1924.
CellTypePlanes(s) ==
  LET px == s.m_perx
      py == s.m_pery
      p0 == s.m_ynplan[0]
      p1 == s.m_ynplan[1]
      p2 == s.m_ynplan[2]
      p3 == s.m_ynplan[3]
      yes(r) == [s |-> r, ok |-> TRUE]
  IN IF ~(px \/ py) /\ ~(p0 /\ p1) /\ ~(p2 /\ p3)
       THEN yes(SetType(s, "A  ", "A00"))
     ELSE IF px /\ ~py /\ ~(p0 \/ p1) /\ ~(p2 /\ p3)
       THEN yes(SetType(s, "B1X", "B1X"))
     ELSE IF py /\ ~px /\ ~(p0 /\ p1) /\ ~(p2 \/ p3)
       THEN yes(SetType(s, "B1Y", "B1Y"))
     ELSE IF px /\ ~py /\ ~(p2 /\ p3)
       THEN yes(SetType(s, "B2X", "B2X"))
     ELSE IF ~(px \/ py) /\ ~(p2 /\ p3) /\ (p0 /\ p1)
       THEN yes([SetType(s, "B2X", "B2X") EXCEPT !.m_sx = PlaneGapX(s)])
     ELSE IF py /\ ~px /\ ~(p0 /\ p1)
       THEN yes(SetType(s, "B2Y", "B2Y"))
     ELSE IF ~(px \/ py) /\ ~(p0 /\ p1) /\ (p2 /\ p3)
       THEN yes([SetType(s, "B2Y", "B2Y") EXCEPT !.m_sy = PlaneGapY(s)])
     ELSE IF ~(p0 \/ p1 \/ p2 \/ p3) /\ px /\ py
       THEN yes(SetType(s, "C1 ", "C10"))
     ELSE IF ~((p2 /\ py) \/ (p2 /\ p3)) /\ (p0 /\ p1)
       THEN yes([SetType(s, "C2X", "C2X") EXCEPT !.m_sx = PlaneGapX(s)])
     ELSE IF ~((p2 /\ py) \/ (p2 /\ p3)) /\ (px /\ p0)
       THEN yes(SetType(s, "C2X", "C2X"))
     ELSE IF ~((p0 /\ px) \/ (p0 /\ p1)) /\ (p2 /\ p3)
       THEN yes([SetType(s, "C2Y", "C2Y") EXCEPT !.m_sy = PlaneGapY(s)])
     ELSE IF ~((p0 /\ px) \/ (p0 /\ p1)) /\ (py /\ p2)
       THEN yes(SetType(s, "C2Y", "C2Y"))
     ELSE IF px /\ py
       THEN yes(SetType(s, "C3 ", "C30"))
     ELSE IF px
       THEN yes([SetType(s, "C3 ", "C30") EXCEPT !.m_sy = PlaneGapY(s)])
     ELSE IF py
       THEN yes([SetType(s, "C3 ", "C30") EXCEPT !.m_sx = PlaneGapX(s)])
     ELSE IF p0 /\ p1 /\ p2 /\ p3
       THEN yes([SetType(s, "C3 ", "C30") EXCEPT !.m_sx = PlaneGapX(s),
                                                  !.m_sy = PlaneGapY(s)])
     ELSE [s |-> s, ok |-> FALSE]

CellType(s) ==
  IF s.m_tube THEN [s |-> CellTypeTube(s), ok |-> TRUE]
  ELSE CellTypePlanes(s)

(***************************************************************************)
(* Setup and Charge.  x is the outcome of the external solver              *)
(* Numerics::Deqinv: ifail, whether the corner element of the inverted     *)
(* augmented matrix is 0, and the solution vector (q for a wire with an     *)
(* even index, -q for an odd one; q for the extra unknown).                *)
(***************************************************************************)
NoEquipotential(s) ==
  ~(s.m_ynplan[0] \/ s.m_ynplan[1] \/ s.m_ynplan[2] \/ s.m_ynplan[3]
    \/ s.m_tube)

\* Line 2927: the solution is copied to the charges of the first m_nWires
\* wires.
CopyCharges(s, x) ==
  [s EXCEPT !.m_w = [k \in 1..Len(s.m_w) |->
                       IF k > s.m_nWires THEN s.m_w[k]
                       ELSE [s.m_w[k] EXCEPT
                               !.e = IF k % 2 = 1 THEN x.q ELSE -x.q]]]

\* What Deqinv reported to Charge in a call, for the caller's record.
Deqinv(x) == IF x.ifail # 0 THEN "failed" ELSE "ok"

\* Lines 2858-2927: [s, ok, deqinv].
Charge(s, x) ==
  IF NoEquipotential(s)
  THEN IF x.ifail # 0 THEN [s |-> s, ok |-> FALSE, deqinv |-> Deqinv(x)]
       ELSE IF x.cornerZero
       THEN [s |-> [s EXCEPT !.m_v0 = x.q], ok |-> FALSE,
             deqinv |-> Deqinv(x)]
       ELSE [s |-> CopyCharges([s EXCEPT !.m_v0 = x.q], x), ok |-> TRUE,
             deqinv |-> Deqinv(x)]
  ELSE [s |-> CopyCharges([s EXCEPT !.m_v0 = 0], x), ok |-> TRUE,
        deqinv |-> Deqinv(x)]

\* The cell types for which Setup has a Setup* routine (lines 2158-2169).
SetupTypes ==
  {"A  ", "B1X", "B1Y", "B2X", "B2Y", "C1 ", "C2X", "C2Y", "C3 ", "D1 ",
   "D2 ", "D3 "}

\* Lines 2098-2189.  Every Setup* routine fills the capacitance matrix and
\* returns what Charge returns; the plane shorthands and the correction
\* terms m_corvta, m_corvtb, m_corvtc only enter the right-hand side of the
\* solve and are not part of the model.
Setup(s, x) ==
  IF s.m_nWires <= 0 THEN [s |-> s, ok |-> TRUE, deqinv |-> "not run"]
  ELSE IF s.m_scellType \in SetupTypes THEN Charge(s, x)
  ELSE [s |-> s, ok |-> TRUE, deqinv |-> "not run"]

(***************************************************************************)
(* PrepareStrips.                                                          *)
(***************************************************************************)
\* The smallest of f over the first m_nWires wires (m_nWires > 0).
MinOverWires(s, f(_)) ==
  CHOOSE m \in {f(Wire(s, i)) : i \in 0..(s.m_nWires - 1)} :
    \A i \in 0..(s.m_nWires - 1) : m <= f(Wire(s, i))

\* Lines 1933-1986: the default gap of plane p.
GapDef(s, p) ==
  LET lo == IF p < 2 THEN 0 ELSE 2
      other == IF p = lo THEN lo + 1 ELSE lo
      dist(w) == IF p = 0 THEN w.x - s.m_coplan[0]
                 ELSE IF p = 1 THEN s.m_coplan[1] - w.x
                 ELSE IF p = 2 THEN w.y - s.m_coplan[2]
                 ELSE s.m_coplan[3] - w.y
  IN IF ~s.m_ynplan[p] THEN 0
     ELSE IF s.m_ynplan[other] THEN s.m_coplan[lo + 1] - s.m_coplan[lo]
     ELSE IF s.m_nWires <= 0 THEN -1
     ELSE MinOverWires(s, dist)

\* One list of strips or pixels: every negative gap is replaced by the
\* default g; the loop stops at the first gap that is still negative.
RECURSIVE AssignGaps(_, _, _)
AssignGaps(list, k, g) ==
  IF k > Len(list) THEN [list |-> list, ok |-> TRUE]
  ELSE IF list[k].gap >= 0 THEN AssignGaps(list, k + 1, g)
  ELSE IF g < 0 THEN [list |-> [list EXCEPT ![k].gap = g], ok |-> FALSE]
  ELSE AssignGaps([list EXCEPT ![k].gap = g], k + 1, g)

\* Lines 1989-2026, from plane p on: r1, r2 and r3 are the three lists of
\* plane p after the assignment.
RECURSIVE PrepareStripsFrom(_, _)
StripsAssigned(s, p, r1, r2, r3) ==
  IF ~r1.ok
  THEN [s |-> [s EXCEPT !.planes[p].strips1 = r1.list], ok |-> FALSE]
  ELSE IF ~r2.ok
  THEN [s |-> [s EXCEPT !.planes[p].strips1 = r1.list,
                        !.planes[p].strips2 = r2.list], ok |-> FALSE]
  ELSE IF ~r3.ok
  THEN [s |-> [s EXCEPT !.planes[p].strips1 = r1.list,
                        !.planes[p].strips2 = r2.list,
                        !.planes[p].pixels = r3.list], ok |-> FALSE]
  ELSE PrepareStripsFrom([s EXCEPT !.planes[p].strips1 = r1.list,
                                   !.planes[p].strips2 = r2.list,
                                   !.planes[p].pixels = r3.list], p + 1)

StripsOfPlane(s, p, g) ==
  StripsAssigned(s, p, AssignGaps(s.planes[p].strips1, 1, g),
                 AssignGaps(s.planes[p].strips2, 1, g),
                 AssignGaps(s.planes[p].pixels, 1, g))

PrepareStripsFrom(s, p) ==
  IF p > 3 THEN [s |-> s, ok |-> TRUE]
  ELSE StripsOfPlane(s, p, GapDef(s, p))

PrepareStrips(s) == PrepareStripsFrom(s, 0)

(***************************************************************************)
(* Prepare (lines 1188-1232): [s, ok, ran, deqinv], ran being the stages   *)
(* that were entered and deqinv what the matrix inversion of Charge        *)
(* reported ("not run" when Charge was not reached).  Each stage works on  *)
(* the object the stage before has left.                                   *)
(***************************************************************************)
\* Lines 1224-1231.
AfterPrepareStrips(g, deqinv) ==
  [s |-> IF g.ok THEN [g.s EXCEPT !.m_cellset = TRUE] ELSE g.s,
   ok |-> g.ok,
   ran |-> <<"CellCheck", "CellType", "Setup", "PrepareStrips">>,
   deqinv |-> deqinv]

\* Lines 1213-1228.
AfterSetup(u) ==
  IF ~u.ok
  THEN [s |-> u.s, ok |-> FALSE, ran |-> <<"CellCheck", "CellType", "Setup">>,
        deqinv |-> u.deqinv]
  ELSE AfterPrepareStrips(PrepareStrips(u.s), u.deqinv)

\* Lines 1202-1217.
AfterCellType(t, x) ==
  IF ~t.ok
  THEN [s |-> t.s, ok |-> FALSE, ran |-> <<"CellCheck", "CellType">>,
        deqinv |-> "not run"]
  ELSE AfterSetup(Setup(t.s, x))

\* Lines 1191-1206.
AfterCellCheck(c, x) ==
  IF ~c.ok
  THEN [s |-> c.s, ok |-> FALSE, ran |-> <<"CellCheck">>,
        deqinv |-> "not run"]
  ELSE AfterCellType(CellType(c.s), x)

Prepare(s, x) == AfterCellCheck(CellCheck(s), x)

(***************************************************************************)
(* PrepareSignals.  nFourier keeps its initial value 1, so fperx and fpery *)
(* are false and one signal layer is built; x.cinvfail is the failure flag *)
(* of the external inversion Numerics::Cinv.                               *)
(***************************************************************************)
\* Lines 4504-4527: the cell types PrepareSignals can handle.
SignalTypes ==
  {"A  ", "B1X", "B1Y", "C1 ", "B2X", "C2X", "B2Y", "C2Y", "C3 ", "D1 ", "D3 "}

\* Lines 4585-4612 for one list of strips or pixels.
AssociateList(s, list) ==
  [k \in 1..Len(list) |->
     IF ReadoutIndex(s, list[k].type) >= 0
     THEN [list[k] EXCEPT !.ind = ReadoutIndex(s, list[k].type)]
     ELSE list[k]]

\* Lines 4585-4612: wires, planes, strips and pixels get the index of their
\* readout group.
Associate(s) ==
  [s EXCEPT
     !.m_w = [k \in 1..Len(s.m_w) |->
                IF k <= s.m_nWires /\ ReadoutIndex(s, s.m_w[k].type) >= 0
                THEN [s.m_w[k] EXCEPT !.ind = ReadoutIndex(s, s.m_w[k].type)]
                ELSE s.m_w[k]],
     !.planes = [p \in 0..4 |->
                   [type |-> s.planes[p].type,
                    ind |-> IF ReadoutIndex(s, s.planes[p].type) >= 0
                            THEN ReadoutIndex(s, s.planes[p].type)
                            ELSE s.planes[p].ind,
                    strips1 |-> AssociateList(s, s.planes[p].strips1),
                    strips2 |-> AssociateList(s, s.planes[p].strips2),
                    pixels |-> AssociateList(s, s.planes[p].pixels)]]]

\* Lines 4508-4520: the cell type with the true periodicities eliminated.
FourierType(scell) ==
  IF scell \in {"A  ", "B1X", "B1Y", "C1 "} THEN "A  "
  ELSE IF scell \in {"B2X", "C2X"} THEN "B2X"
  ELSE IF scell \in {"B2Y", "C2Y"} THEN "B2Y"
  ELSE scell

\* Lines 4497-4617, p being the result of the call of Prepare (or the
\* prepared object).
SignalsAfterPrepare(p, x) ==
  IF ~p.ok THEN p
  ELSE IF p.s.m_scellType \notin SignalTypes
  THEN [p EXCEPT !.ok = FALSE]
  ELSE IF p.s.m_nWires >= 1 /\ x.cinvfail
  THEN [p EXCEPT !.ok = FALSE,
                 !.s.m_scellTypeFourier = FourierType(p.s.m_scellType)]
  ELSE [p EXCEPT !.s = [Associate(p.s) EXCEPT
                          !.m_scellTypeFourier = FourierType(p.s.m_scellType),
                          !.m_sigset = TRUE]]

\* What a caller that prepares on demand gets: the object as it is when it
\* is prepared already, the result of Prepare otherwise.
NothingRan(s, ok) ==
  [s |-> s, ok |-> ok, ran |-> <<>>, deqinv |-> "not run"]

Prepared(s, x) == IF s.m_cellset THEN NothingRan(s, TRUE) ELSE Prepare(s, x)

\* Lines 4481-4617: [s, ok, ran].
PrepareSignals(s, x) ==
  IF Len(s.m_readout) = 0 THEN NothingRan(s, FALSE)
  ELSE SignalsAfterPrepare(Prepared(s, x), x)

(***************************************************************************)
(* Field.  The query points lie on the x-axis at x >= 0, so the polar      *)
(* rotation used with a tube and phi-periodicity (angle 0) leaves them      *)
(* where they are (the polar branch starts again from the unfolded point). *)
(* The result names the evaluator that was called, or "none"; the field    *)
(* and potential an evaluator computes are not part of the model (volt is  *)
(* the sentinel potential, 0 when an evaluator was called).                *)
(***************************************************************************)
\* Lines 904-924: the point handed to the evaluators.
FoldedPoint(s, xin, yin) ==
  LET x0 == IF s.m_perx /\ ~(s.m_pery /\ s.m_tube)
            THEN xin - s.m_sx * RoundDiv(xin, s.m_sx) ELSE xin
      y0 == IF s.m_pery /\ ~s.m_tube
            THEN yin - s.m_sy * RoundDiv(yin, s.m_sy) ELSE yin
      x1 == IF s.m_perx /\ s.m_ynplan[0] /\ x0 <= s.m_coplan[0]
            THEN x0 + s.m_sx ELSE x0
      x2 == IF s.m_perx /\ s.m_ynplan[1] /\ x1 >= s.m_coplan[1]
            THEN x1 - s.m_sx ELSE x1
      y1 == IF s.m_pery /\ s.m_ynplan[2] /\ y0 <= s.m_coplan[2]
            THEN y0 + s.m_sy ELSE y0
      y2 == IF s.m_pery /\ s.m_ynplan[3] /\ y1 >= s.m_coplan[3]
            THEN y1 - s.m_sy ELSE y1
  IN [x |-> x2, y |-> y2]

\* Lines 952-963: wire i contains the point (x, y).
InWire(s, i, x, y) ==
  LET w == Wire(s, i)
      dx0 == x - w.x
      dy0 == y - w.y
      dx == IF s.m_perx THEN dx0 - s.m_sx * RoundDiv(dx0, s.m_sx) ELSE dx0
      dy == IF s.m_pery THEN dy0 - s.m_sy * RoundDiv(dy0, s.m_sy) ELSE dy0
  IN 4 * (dx * dx + dy * dy) < w.d * w.d

\* Lines 965-1009: the cell types Field has an evaluator for.
FieldTypes ==
  {"A00", "B1X", "B1Y", "B2X", "B2Y", "C10", "C2X", "C2Y", "C30", "D10",
   "D20", "D30"}

Sentinel(st, v) == [status |-> st, volt |-> v, evaluator |-> "none"]

\* The wires that contain the point p.
WiresHit(s, p) == {i \in 0..(s.m_nWires - 1) : InWire(s, i, p.x, p.y)}

\* The loop of lines 952-963 runs downwards: the first hit is the wire with
\* the highest index.
FirstHit(hit) == CHOOSE i \in hit : \A k \in hit : k <= i

\* Field as it would be with the wire test ahead of the tube and plane
\* tests.
FieldAtWiresFirst(s, p) ==
  IF WiresHit(s, p) # {}
    THEN Sentinel(FirstHit(WiresHit(s, p)) + 1,
                  Wire(s, FirstHit(WiresHit(s, p))).v)
  ELSE IF s.m_tube /\ ~InTube(p.x, p.y, s.m_cotube, s.m_ntube)
    THEN Sentinel(-4, s.m_vttube)
  ELSE IF ~s.m_tube /\ s.m_ynplan[0] /\ p.x < s.m_coplan[0]
    THEN Sentinel(-4, s.m_vtplan[0])
  ELSE IF ~s.m_tube /\ s.m_ynplan[1] /\ p.x > s.m_coplan[1]
    THEN Sentinel(-4, s.m_vtplan[1])
  ELSE IF ~s.m_tube /\ s.m_ynplan[2] /\ p.y < s.m_coplan[2]
    THEN Sentinel(-4, s.m_vtplan[2])
  ELSE IF ~s.m_tube /\ s.m_ynplan[3] /\ p.y > s.m_coplan[3]
    THEN Sentinel(-4, s.m_vtplan[3])
  ELSE IF s.m_cellType \in FieldTypes
    THEN [status |-> 0, volt |-> 0, evaluator |-> s.m_cellType, at |-> p]
  ELSE Sentinel(-10, 0)

\* Lines 926-1080 at the folded point p.
FieldAt(s, p) ==
  IF s.m_tube /\ ~InTube(p.x, p.y, s.m_cotube, s.m_ntube)
    THEN Sentinel(-4, s.m_vttube)
  ELSE IF ~s.m_tube /\ s.m_ynplan[0] /\ p.x < s.m_coplan[0]
    THEN Sentinel(-4, s.m_vtplan[0])
  ELSE IF ~s.m_tube /\ s.m_ynplan[1] /\ p.x > s.m_coplan[1]
    THEN Sentinel(-4, s.m_vtplan[1])
  ELSE IF ~s.m_tube /\ s.m_ynplan[2] /\ p.y < s.m_coplan[2]
    THEN Sentinel(-4, s.m_vtplan[2])
  ELSE IF ~s.m_tube /\ s.m_ynplan[3] /\ p.y > s.m_coplan[3]
    THEN Sentinel(-4, s.m_vtplan[3])
  ELSE IF WiresHit(s, p) # {}
    THEN Sentinel(FirstHit(WiresHit(s, p)) + 1,
                  Wire(s, FirstHit(WiresHit(s, p))).v)
  ELSE IF s.m_cellType \in FieldTypes
    THEN [status |-> 0, volt |-> 0, evaluator |-> s.m_cellType, at |-> p]
  ELSE Sentinel(-10, 0)

\* Lines 1054-1072: the routine that adds the point charges.
Field3dRoutine(s) ==
  IF s.m_cellType \in {"B2X", "B2Y", "D10"} THEN s.m_cellType ELSE "A00"

\* Lines 3991-3995 (and 4072-4074): the separation of the point handed to
\* the routine from each charge, from which the routine computes its terms.
Field3dSeparations(s, x, y) ==
  [i \in 1..Len(s.m_ch3d) |->
     [dx |-> x - s.m_ch3d[i].x, dy |-> y - s.m_ch3d[i].y]]

\* Lines 1051-1077: the routine is handed xin and yin, the point of the
\* call, not the folded point.  field3d is "none" without point charges.
FieldWithCharges(s, f, xin, yin) ==
  IF f.evaluator = "none" THEN f
  ELSE [status |-> f.status, volt |-> f.volt, evaluator |-> f.evaluator,
        at |-> f.at,
        field3d |-> IF s.m_ch3d = <<>> THEN "none" ELSE Field3dRoutine(s),
        from3d |-> Field3dSeparations(s, xin, yin)]

\* Lines 879-1080.
Field(s, xin, yin) ==
  FieldWithCharges(s, FieldAt(s, FoldedPoint(s, xin, yin)), xin, yin)

(***************************************************************************)
(* The queries: [s |-> the object afterwards, out |-> what the caller      *)
(* sees and what the call did].  prepared tells whether Prepare was        *)
(* called, prepareOk what it returned, ran lists its stages and deqinv is  *)
(* the report of the matrix inversion; fieldCalled tells whether Field was *)
(* called and cellsetAtField is m_cellset at that moment.                  *)
(***************************************************************************)
\* Lines 43-51: the medium at a point with status 0.
MediumStatus(m) == IF m = "null" THEN -6 ELSE IF m = "solid" THEN -5 ELSE 0

\* Lines 29-33: the caller's view when Prepare has failed.
FieldFailed(p) ==
  [status |-> -11, field |-> "zero", volt |-> 0, medium |-> "null",
   evaluator |-> "none", prepared |-> TRUE, prepareOk |-> FALSE,
   ran |-> p.ran, deqinv |-> p.deqinv,
   fieldCalled |-> FALSE, cellsetAtField |-> FALSE]

\* Lines 36-51: the caller's view when Field has returned f; wasSet is
\* m_cellset at the start of the call.
FieldDone(p, f, m, wasSet) ==
  [status |-> IF f.status = 0 THEN MediumStatus(m) ELSE f.status,
   field |-> IF f.evaluator = "none" THEN "zero" ELSE "computed",
   volt |-> f.volt,
   medium |-> IF f.status = 0 THEN m ELSE "null",
   evaluator |-> f.evaluator,
   prepared |-> ~wasSet, prepareOk |-> TRUE,
   ran |-> p.ran, deqinv |-> p.deqinv,
   fieldCalled |-> TRUE, cellsetAtField |-> p.s.m_cellset]

\* ElectricField as it would be if the result of Prepare were ignored.
ElectricFieldUngated(p, xin, yin, m, wasSet) ==
  [s |-> p.s, out |-> FieldDone(p, Field(p.s, xin, yin), m, wasSet)]

ElectricFieldAfter(p, xin, yin, m, wasSet) ==
  IF ~p.ok THEN [s |-> p.s, out |-> FieldFailed(p)]
  ELSE [s |-> p.s, out |-> FieldDone(p, Field(p.s, xin, yin), m, wasSet)]

\* Lines 19-86 (both overloads; v is set by the second one only).
ElectricField(s, xin, yin, m, x) ==
  ElectricFieldAfter(Prepared(s, x), xin, yin, m, s.m_cellset)

\* Lines 88-103; pmin and pmax are written only when the call succeeds
\* (0 stands for a value that was not written).
VoltageRangeAfter(p, wasSet) ==
  [s |-> p.s,
   out |-> [ok |-> p.ok, pmin |-> IF p.ok THEN p.s.vmin ELSE 0,
            pmax |-> IF p.ok THEN p.s.vmax ELSE 0,
            prepared |-> ~wasSet, ran |-> p.ran, deqinv |-> p.deqinv]]

GetVoltageRange(s, x) == VoltageRangeAfter(Prepared(s, x), s.m_cellset)

\* Lines 105-156: WeightingField and WeightingPotential take the same path
\* to Wfield; called tells whether Wfield was reached.
SignalsPrepared(s, x) ==
  IF s.m_sigset THEN NothingRan(s, TRUE) ELSE PrepareSignals(s, x)

\* Lines 5483-5498 and 5528-5541: the signal cell types Wfield has a wire
\* routine and a plane routine for.
WfieldWireTypes == {"A  ", "B2X", "B2Y", "C2X", "C2Y", "C3 ", "D1 ", "D3 "}

WfieldPlaneTypes == {"A  ", "B2X", "B2Y", "C2X", "C2Y", "D1 ", "D3 "}

\* Lines 5587-5617: the strips and pixels of readout group isw, each named
\* by its plane, its list and its place in the list.
StripsOfGroup(s, isw) ==
  UNION {{<<p, "strips1", k>> :
            k \in {j \in 1..Len(s.planes[p].strips1) :
                     s.planes[p].strips1[j].ind = isw}}
         \cup {<<p, "strips2", k>> :
                 k \in {j \in 1..Len(s.planes[p].strips2) :
                          s.planes[p].strips2[j].ind = isw}}
         \cup {<<p, "pixels", k>> :
                 k \in {j \in 1..Len(s.planes[p].pixels) :
                          s.planes[p].pixels[j].ind = isw}} : p \in 0..4}

\* Lines 5450-5619: [ok |-> the value returned, strips |-> the strips and
\* pixels whose weighting field was added to the sums].
Wfield(s, isw) ==
  IF ~s.m_sigset THEN [ok |-> FALSE, strips |-> {}]
  ELSE IF /\ \E iw \in 0..(s.m_nWires - 1) : Wire(s, iw).ind = isw
          /\ s.m_scellTypeFourier \notin WfieldWireTypes
  THEN [ok |-> FALSE, strips |-> {}]
  ELSE IF /\ \E ip \in 0..4 : s.planes[ip].ind = isw
          /\ s.m_scellTypeFourier \notin WfieldPlaneTypes
  THEN [ok |-> FALSE, strips |-> {}]
  ELSE [ok |-> TRUE, strips |-> StripsOfGroup(s, isw)]

\* What the caller of WeightingField / WeightingPotential sees: called
\* tells whether Wfield was reached, result whether the values returned are
\* the sums of Wfield or the zeros they were initialised with, strips which
\* strips and pixels entered the sums; prepared tells whether
\* PrepareSignals was called and signalsOk what it returned.
WeightingFieldOut(label, called, w, prepared, ok, ran) ==
  [label |-> label, called |-> called,
   result |-> IF called /\ w.ok THEN "sum" ELSE "zero",
   strips |-> IF called THEN w.strips ELSE {},
   prepared |-> prepared, signalsOk |-> ok, ran |-> ran]

\* WeightingField as it would be if the result of PrepareSignals were
\* ignored.
WeightingFieldUnchecked(p, label, wasSet) ==
  [s |-> p.s,
   out |-> WeightingFieldOut(
             label, label # "" /\ ReadoutIndex(p.s, label) >= 0,
             Wfield(p.s, ReadoutIndex(p.s, label)), ~wasSet, p.ok, p.ran)]

\* Lines 114-129, p being the result of the call of PrepareSignals (or the
\* prepared object).
WeightingFieldAfter(p, label, wasSet) ==
  [s |-> p.s,
   out |-> WeightingFieldOut(
             label, p.ok /\ label # "" /\ ReadoutIndex(p.s, label) >= 0,
             Wfield(p.s, ReadoutIndex(p.s, label)), ~wasSet, p.ok, p.ran)]

WeightingField(s, label, x) ==
  IF Len(s.m_readout) = 0
  THEN [s |-> s,
        out |-> WeightingFieldOut(label, FALSE, [ok |-> FALSE, strips |-> {}],
                                  FALSE, FALSE, <<>>)]
  ELSE WeightingFieldAfter(SignalsPrepared(s, x), label, s.m_sigset)

(***************************************************************************)
(* Arguments of the calls.                                                 *)
(***************************************************************************)
\* A wire at the centre at potential 1 and a wire at x = 3 (outside the tube
\* and outside the planes of the model) at potential 0.
GoodWireArgs ==
  {[x |-> w[1], y |-> 0, diameter |-> 2, voltage |-> w[2],
    label |-> WireLabel, length |-> 1, tension |-> 1, rho |-> 1, ntrap |-> 1]
   : w \in WirePlaces}

BaseWireArgs ==
  [x |-> 0, y |-> 0, diameter |-> 2, voltage |-> 1, label |-> WireLabel,
   length |-> 1, tension |-> 1, rho |-> 1, ntrap |-> 1]

BadWireArgs ==
  {[BaseWireArgs EXCEPT !.diameter = 0], [BaseWireArgs EXCEPT !.tension = 0],
   [BaseWireArgs EXCEPT !.rho = 0], [BaseWireArgs EXCEPT !.length = 0],
   [BaseWireArgs EXCEPT !.ntrap = 0]}

GoodTubeArgs ==
  [radius : TubeRadii, voltage : {0}, nEdges : TubeEdges, label : {TubeLabel}]

BadTubeArgs ==
  [radius : TubeRadii, voltage : {0}, nEdges : BadTubeEdges, label : {TubeLabel}]
  \cup [radius : {0}, voltage : {0}, nEdges : {0}, label : {TubeLabel}]

PlaneXArgs == [co : PlaneCoords, v : {0}, lab : {PlaneLabel}]

PlaneYArgs == [co : PlaneCoords, v : {0}, lab : {PlaneLabel}]

StripArgs ==
  [direction : {"1", "q"}, co : {2}, smin : {0}, smax : {1},
   label : {StripLabel}, gap : {1}]
  \cup [direction : {"1"}, co : {2}, smin : {0}, smax : {0},
        label : {StripLabel}, gap : {1}]

PixelArgs ==
  [co : {2}, smin : {0}, smax : {0, 1}, zmin : {0}, zmax : {1},
   label : {StripLabel}, gap : {1}]

\* Outcomes of the external numerics during one call: the matrix inversion
\* of Charge (ifail), the corner element of the inverted matrix being zero,
\* the charge it yields, and the matrix inversion of the signal set-up.
GoodOutcome == [ifail |-> 0, cornerZero |-> FALSE, q |-> 1, cinvfail |-> FALSE]

FieldOutcomes ==
  {GoodOutcome, [GoodOutcome EXCEPT !.ifail = 1],
   [GoodOutcome EXCEPT !.cornerZero = TRUE]}

SignalOutcomes ==
  {GoodOutcome, [GoodOutcome EXCEPT !.ifail = 1],
   [GoodOutcome EXCEPT !.cinvfail = TRUE]}

\* Strips and pixels attached to the planes.
TotalStrips(s) ==
  LET n(p) == Len(s.planes[p].strips1) + Len(s.planes[p].strips2)
              + Len(s.planes[p].pixels)
  IN n(0) + n(1) + n(2) + n(3)

(***************************************************************************)
(* The state machine: caf is the ComponentAnalyticField object, last the   *)
(* most recent call (its arguments, and what the caller saw of it),        *)
(* nCalls the number of accepted mutator calls so far.                     *)
(***************************************************************************)
Init ==
  /\ caf = CellInit
  /\ last = [op |-> "new"]
  /\ nCalls = 0

\* A mutator call: the object moves from caf to s2.
Mutate(op, rejected, s2, info) ==
  /\ nCalls < MaxCalls
  /\ caf' = s2
  /\ last' = [op |-> op, accepted |-> ~rejected, args |-> info,
              wasSet |-> caf.m_cellset /\ caf.m_sigset]
  /\ nCalls' = IF rejected THEN nCalls ELSE nCalls + 1

CallAddWire ==
  \E a \in GoodWireArgs \cup BadWireArgs :
    /\ Len(caf.m_w) < MaxWires
    /\ Mutate("AddWire", AddWireRejects(a), AddWire(caf, a), a)

CallAddTube ==
  \E a \in GoodTubeArgs \cup BadTubeArgs :
    Mutate("AddTube", AddTubeRejects(a), AddTube(caf, a), a)

CallAddPlaneX ==
  \E a \in PlaneXArgs :
    Mutate("AddPlaneX", AddPlaneRejects(caf, 0), AddPlaneX(caf, a), a)

CallAddPlaneY ==
  \E a \in PlaneYArgs :
    Mutate("AddPlaneY", AddPlaneRejects(caf, 2), AddPlaneY(caf, a), a)

CallAddStripOnPlaneX ==
  \E a \in StripArgs :
    /\ TotalStrips(caf) < MaxStrips
    /\ Mutate("AddStripOnPlaneX", AddStripRejects(caf, 0, a),
              AddStripOnPlaneX(caf, a), a)

CallAddStripOnPlaneY ==
  \E a \in StripArgs :
    /\ TotalStrips(caf) < MaxStrips
    /\ Mutate("AddStripOnPlaneY", AddStripRejects(caf, 2, a),
              AddStripOnPlaneY(caf, a), a)

CallAddPixelOnPlaneX ==
  \E a \in PixelArgs :
    /\ TotalStrips(caf) < MaxStrips
    /\ Mutate("AddPixelOnPlaneX", AddPixelRejects(caf, 0, a),
              AddPixelOnPlaneX(caf, a), a)

CallAddPixelOnPlaneY ==
  \E a \in PixelArgs :
    /\ TotalStrips(caf) < MaxStrips
    /\ Mutate("AddPixelOnPlaneY", AddPixelRejects(caf, 2, a),
              AddPixelOnPlaneY(caf, a), a)

CallSetPeriodicityX ==
  \E p \in Periods \cup {0} :
    Mutate("SetPeriodicityX", SetPeriodicityRejects(p),
           SetPeriodicityX(caf, p), p)

CallSetPeriodicityY ==
  \E p \in PeriodsY \cup {0} :
    Mutate("SetPeriodicityY", SetPeriodicityRejects(p),
           SetPeriodicityY(caf, p), p)

CallAddReadout ==
  \E l \in ReadoutLabels :
    Mutate("AddReadout", ReadoutIndex(caf, l) >= 0, AddReadout(caf, l), l)

\* A query: the object moves to r.s and the caller sees r.out.
Query(op, r) ==
  /\ caf' = r.s
  /\ last' = [op |-> op, out |-> r.out]
  /\ UNCHANGED nCalls

CallElectricField ==
  \E xin \in QueryXs, m \in Media, x \in FieldOutcomes :
    Query("ElectricField", ElectricField(caf, xin, 0, m, x))

CallGetVoltageRange ==
  \E x \in FieldOutcomes : Query("GetVoltageRange", GetVoltageRange(caf, x))

CallWeightingField ==
  \E l \in ReadoutLabels \cup {"", OtherLabel}, x \in SignalOutcomes :
    Query("WeightingField", WeightingField(caf, l, x))

Next ==
  \/ CallAddWire
  \/ CallAddTube
  \/ CallAddPlaneX
  \/ CallAddPlaneY
  \/ CallAddStripOnPlaneX
  \/ CallAddStripOnPlaneY
  \/ CallAddPixelOnPlaneX
  \/ CallAddPixelOnPlaneY
  \/ CallSetPeriodicityX
  \/ CallSetPeriodicityY
  \/ CallAddReadout
  \/ CallElectricField
  \/ CallGetVoltageRange
  \/ CallWeightingField

Spec == Init /\ [][Next]_vars

(***************************************************************************)
(* CellType on its own: every combination of the periodicity flags, the    *)
(* tube with its edge count and the four planes, CellType applied once.    *)
(***************************************************************************)
CellTypeEdges == {0, 3, 8, 9, 12}

CellTypeInputs ==
  {i \in [perx : BOOLEAN, pery : BOOLEAN, tube : BOOLEAN,
          ntube : CellTypeEdges, ynplan : [0..3 -> BOOLEAN]] :
     i.tube \/ i.ntube = 0}

CellOfInputs(i) ==
  [CellInit EXCEPT !.m_xPeriodic = i.perx, !.m_perx = i.perx,
                   !.m_yPeriodic = i.pery, !.m_pery = i.pery,
                   !.m_sx = 4, !.m_sy = 4,
                   !.m_tube = i.tube, !.m_ntube = i.ntube, !.m_cotube = 2,
                   !.m_ynplan = i.ynplan,
                   !.m_coplan = [p \in 0..3 |-> IF p \in {0, 2} THEN -2 ELSE 2]]

InitCellType ==
  /\ caf \in {CellOfInputs(i) : i \in CellTypeInputs}
  /\ last = [op |-> "new"]
  /\ nCalls = 0

CallCellType ==
  /\ last.op = "new"
  /\ caf' = CellType(caf).s
  /\ last' = [op |-> "CellType", ok |-> CellType(caf).ok,
              tube |-> caf.m_tube, ntube |-> caf.m_ntube]
  /\ UNCHANGED nCalls

NextCellType == CallCellType

SpecCellType == InitCellType /\ [][NextCellType]_vars

(***************************************************************************)
(* CellCheck on its own: cells built with the mutators from up to three    *)
(* wires of diameter 2 on the x-axis (ntrap numbers them in input order),  *)
(* up to two planes per axis, a round tube and the two periodicities, and  *)
(* CellCheck applied once.                                                 *)
(***************************************************************************)
CheckXs == {-2, -1, 0, 1}

CheckPeriod == 4

CheckPlanes == {<<-3, 0>>, <<3, 0>>, <<3, 1>>}

CheckWire(x, k) ==
  [x |-> x, y |-> 0, diameter |-> 2, voltage |-> IF x = 0 THEN 1 ELSE 0,
   label |-> WireLabel, length |-> 1, tension |-> 1, rho |-> 1, ntrap |-> k]

RECURSIVE AddWiresAt(_, _, _)
AddWiresAt(s, xs, k) ==
  IF k > Len(xs) THEN s
  ELSE AddWiresAt(AddWire(s, CheckWire(xs[k], k)), xs, k + 1)

\* The label of the k-th plane added on the axis with the slots lo, lo + 1.
PlaneTag(lo, k) == <<"x1", "x2", "y1", "y2">>[lo + k]

RECURSIVE AddPlanesAt(_, _, _, _)
AddPlanesAt(s, lo, ps, k) ==
  IF k > Len(ps) THEN s
  ELSE AddPlanesAt(AddPlane(s, lo, [co |-> ps[k][1], v |-> ps[k][2],
                                    lab |-> PlaneTag(lo, k)]), lo, ps, k + 1)

\* A strip at the coordinate 3 of the x-axis: it is attached to the x-plane
\* nearest to 3 (the call is rejected without an x-plane).
WithStrip(s, strip) ==
  IF strip
  THEN AddStripOnPlaneX(s, [direction |-> "1", co |-> 3, smin |-> 0,
                            smax |-> 1, label |-> StripLabel, gap |-> 1])
  ELSE s

CheckInputs ==
  [wires : {q \in UNION {[1..n -> CheckXs] : n \in 0..3} :
              \A a, b \in DOMAIN q : a # b => q[a] # q[b]},
   planesX : UNION {[1..n -> CheckPlanes] : n \in 0..2},
   planesY : UNION {[1..n -> CheckPlanes] : n \in 0..2},
   strip : BOOLEAN, tube : BOOLEAN, perx : BOOLEAN, pery : BOOLEAN]

WithTube(s, tube) ==
  IF tube THEN AddTube(s, [radius |-> 2, voltage |-> 0, nEdges |-> 0,
                           label |-> TubeLabel])
  ELSE s

WithPeriods(s, perx, pery) ==
  SetPeriodicityY(SetPeriodicityX(s, IF perx THEN CheckPeriod ELSE 0),
                  IF pery THEN CheckPeriod ELSE 0)

CheckCellOf(i) ==
  WithPeriods(
    WithTube(
      WithStrip(AddPlanesAt(AddPlanesAt(AddWiresAt(CellInit, i.wires, 1),
                                        0, i.planesX, 1), 2, i.planesY, 1),
                i.strip),
      i.tube),
    i.perx, i.pery)

\* Cells with two planes on one axis (lo = 0: x, lo = 2: y) and up to five
\* wires along that axis, on either side of the planes.
NumberingInputs ==
  [wires : {q \in UNION {[1..n -> -2..2] : n \in 1..5} :
              \A a, b \in DOMAIN q : a < b => q[a] < q[b]},
   planes : {q \in [1..2 -> {-3, -1, 1, 3}] : q[1] # q[2]},
   lo : {0, 2}]

NumberingWire(c, lo, k) ==
  [x |-> IF lo = 0 THEN c ELSE 0, y |-> IF lo = 0 THEN 0 ELSE c,
   diameter |-> 1, voltage |-> k, label |-> WireLabel, length |-> 1,
   tension |-> 1, rho |-> 1, ntrap |-> 1]

RECURSIVE AddNumberingWires(_, _, _, _)
AddNumberingWires(s, cs, lo, k) ==
  IF k > Len(cs) THEN s
  ELSE AddNumberingWires(AddWire(s, NumberingWire(cs[k], lo, k)), cs, lo,
                         k + 1)

NumberingCellOf(i) ==
  AddPlanesAt(AddNumberingWires(CellInit, i.wires, i.lo, 1), i.lo,
              <<<<i.planes[1], 0>>, <<i.planes[2], 1>>>>, 1)

InitCellCheck ==
  /\ caf \in {CheckCellOf(i) : i \in CheckInputs}
            \cup {NumberingCellOf(i) : i \in NumberingInputs}
  /\ last = [op |-> "new"]
  /\ nCalls = 0

CallCellCheck ==
  /\ last.op = "new"
  /\ caf' = CellCheck(caf).s
  /\ last' = [op |-> "CellCheck", ok |-> CellCheck(caf).ok, before |-> caf]
  /\ UNCHANGED nCalls

\* Lines 1191-1202 of Prepare: CellType follows a successful CellCheck.
CallCellTypeChecked ==
  /\ last.op = "CellCheck"
  /\ last.ok
  /\ caf' = CellType(caf).s
  /\ last' = [op |-> "CellType", ok |-> CellType(caf).ok,
              tube |-> caf.m_tube, ntube |-> caf.m_ntube]
  /\ UNCHANGED nCalls

NextCellCheck == CallCellCheck \/ CallCellTypeChecked

SpecCellCheck == InitCellCheck /\ [][NextCellCheck]_vars

(***************************************************************************)
(* Field on its own: cells built with the mutators (up to two wires on the *)
(* x-axis, up to two planes per axis, a round or square tube, the two      *)
(* periodicities) on which Prepare has succeeded; point charges are added  *)
(* and Field is called at points of a small grid.  With a tube and         *)
(* phi-periodicity the points lie on the x-axis at x >= 0 (see FoldedPoint).*)
(***************************************************************************)
MaxCharges == 1

FieldPeriod == 4

FieldTubeRadius == 2

FieldTubeVoltage == 3

\* <<x, diameter, voltage>>.
FieldWires == {<<0, 2, 1>>, <<2, 4, 2>>, <<-2, 1, 0>>}

\* <<coordinate, voltage>>, for each axis.
FieldPlaneLists ==
  {<<>>, <<<<-2, 1>>>>, <<<<2, 1>>>>, <<<<-2, 1>>, <<2, 1>>>>,
   <<<<-2, 1>>, <<2, 2>>>>}

\* -1: no tube; otherwise the number of edges.
FieldTubes == {-1, 0, 4}

FieldXs == -3..3

FieldYs == {-3, 0, 2}

ChargeXs == {1}

FieldWire(w, k) ==
  [x |-> w[1], y |-> 0, diameter |-> w[2], voltage |-> w[3],
   label |-> WireLabel, length |-> 1, tension |-> 1, rho |-> 1, ntrap |-> k]

RECURSIVE AddFieldWires(_, _, _)
AddFieldWires(s, ws, k) ==
  IF k > Len(ws) THEN s
  ELSE AddFieldWires(AddWire(s, FieldWire(ws[k], k)), ws, k + 1)

FieldInputs ==
  [wires : {q \in UNION {[1..n -> FieldWires] : n \in 0..2} :
              \A a, b \in DOMAIN q : a # b => q[a] # q[b]},
   planesX : FieldPlaneLists, planesY : FieldPlaneLists,
   tube : FieldTubes, perx : BOOLEAN, pery : BOOLEAN]

WithFieldTube(s, n) ==
  IF n < 0 THEN s
  ELSE AddTube(s, [radius |-> FieldTubeRadius, voltage |-> FieldTubeVoltage,
                   nEdges |-> n, label |-> TubeLabel])

FieldCellOf(i) ==
  SetPeriodicityY(
    SetPeriodicityX(
      WithFieldTube(
        AddPlanesAt(AddPlanesAt(AddFieldWires(CellInit, i.wires, 1),
                                0, i.planesX, 1), 2, i.planesY, 1),
        i.tube),
      IF i.perx THEN FieldPeriod ELSE 0),
    IF i.pery THEN FieldPeriod ELSE 0)

\* The cells on which Prepare succeeds, as Prepare leaves them.
PreparedCells ==
  {Prepare(FieldCellOf(i), GoodOutcome).s :
     i \in {k \in FieldInputs : Prepare(FieldCellOf(k), GoodOutcome).ok}}

InitField ==
  /\ caf \in PreparedCells
  /\ last = [op |-> "new"]
  /\ nCalls = 0

CallAddCharge ==
  \E x \in ChargeXs :
    /\ Len(caf.m_ch3d) < MaxCharges
    /\ caf' = AddCharge(caf, x, 0)
    /\ last' = [op |-> "AddCharge"]
    /\ UNCHANGED nCalls

CallField ==
  \E xin \in FieldXs, yin \in FieldYs :
    /\ (caf.m_tube /\ caf.m_pery) => (yin = 0 /\ xin >= 0)
    /\ last' = [op |-> "Field", xin |-> xin, yin |-> yin,
                out |-> Field(caf, xin, yin)]
    /\ UNCHANGED <<caf, nCalls>>

NextField == CallAddCharge \/ CallField

SpecField == InitField /\ [][NextField]_vars

(***************************************************************************)
(* Charge on its own, with the capacitance matrix and the solution of the  *)
(* equations in the model.  The cells have one or two wires and no plane   *)
(* or one plane at potential 0 (so that the corrections m_corvta, m_corvtb *)
(* and m_corvtc of line 2870 are 0); m_a is the matrix a Setup routine has *)
(* filled, with small integer entries.  Numerics::Deqinv(n, a, ifail, b)   *)
(* replaces b by the solution of a.x = b and a by its inverse, and sets    *)
(* ifail to -1 when a is singular; the inputs are those for which the      *)
(* matrix is singular or the solution lies in SolutionRange.               *)
(***************************************************************************)
ChargeCounts == {1, 2}

CapEntries == {0, 1, 2}

ChargeVolts == {0, 1, 2}

SolutionRange == -4..4

\* The sum of f over 1..n.
RECURSIVE SumTo(_, _)
SumTo(f, n) == IF n = 0 THEN 0 ELSE f[n] + SumTo(f, n - 1)

\* The determinant of the n x n matrix a, n <= 3.
Det(n, a) ==
  IF n = 1 THEN a[1][1]
  ELSE IF n = 2 THEN a[1][1] * a[2][2] - a[1][2] * a[2][1]
  ELSE a[1][1] * (a[2][2] * a[3][3] - a[2][3] * a[3][2])
       - a[1][2] * (a[2][1] * a[3][3] - a[2][3] * a[3][1])
       + a[1][3] * (a[2][1] * a[3][2] - a[2][2] * a[3][1])

\* The system as it would be with a corner of 1 in the extra row.
ChargeSystemCornerOne(s, a) ==
  IF NoEquipotential(s)
  THEN [n |-> s.m_nWires + 1,
        a |-> [i \in 1..(s.m_nWires + 1) |->
                 [j \in 1..(s.m_nWires + 1) |->
                    IF i <= s.m_nWires /\ j <= s.m_nWires THEN a[i][j]
                    ELSE 1]],
        b |-> [i \in 1..(s.m_nWires + 1) |->
                 IF i <= s.m_nWires THEN Wire(s, i - 1).v ELSE 0]]
  ELSE [n |-> s.m_nWires, a |-> a,
        b |-> [i \in 1..s.m_nWires |-> Wire(s, i - 1).v]]

\* Lines 2868-2886 and 2913: the system handed to Deqinv, [n, a, b].
\* Without plane and tube a column of ones (line 2883), a row of ones
\* (line 2884) with the corner 0 (line 2886) and the right-hand side 0
\* (line 2879) are added.
ChargeSystem(s, a) ==
  IF NoEquipotential(s)
  THEN [n |-> s.m_nWires + 1,
        a |-> [i \in 1..(s.m_nWires + 1) |->
                 [j \in 1..(s.m_nWires + 1) |->
                    IF i <= s.m_nWires /\ j <= s.m_nWires THEN a[i][j]
                    ELSE IF i = s.m_nWires + 1 /\ j = s.m_nWires + 1 THEN 0
                    ELSE 1]],
        b |-> [i \in 1..(s.m_nWires + 1) |->
                 IF i <= s.m_nWires THEN Wire(s, i - 1).v ELSE 0]]
  ELSE [n |-> s.m_nWires, a |-> a,
        b |-> [i \in 1..s.m_nWires |-> Wire(s, i - 1).v]]

\* q solves the system sys.
Solves(sys, q) ==
  \A i \in 1..sys.n :
    SumTo([j \in 1..sys.n |-> sys.a[i][j] * q[j]], sys.n) = sys.b[i]

\* What Deqinv can return for the system sys: [ifail, b, corner], corner
\* telling whether the last diagonal element of the inverse is 0 (it is
\* the determinant of the matrix without its last row and column divided
\* by the determinant of the matrix).
DeqinvResults(sys) ==
  IF Det(sys.n, sys.a) = 0
  THEN {[ifail |-> -1, b |-> sys.b, cornerZero |-> FALSE]}
  ELSE {[ifail |-> 0, b |-> q,
         cornerZero |-> sys.n > 1 /\ Det(sys.n - 1, sys.a) = 0] :
          q \in {r \in [1..sys.n -> SolutionRange] : Solves(sys, r)}}

\* Line 2927.
CopySolution(s, b) ==
  [s EXCEPT !.m_w = [k \in 1..Len(s.m_w) |->
                       IF k > s.m_nWires THEN s.m_w[k]
                       ELSE [s.m_w[k] EXCEPT !.e = b[k]]]]

\* Lines 2877-2927 once Deqinv has returned r: [s, ok].
ChargeSolved(s, r) ==
  IF NoEquipotential(s)
  THEN IF r.ifail # 0 THEN [s |-> s, ok |-> FALSE]
       ELSE IF r.cornerZero
       THEN [s |-> [s EXCEPT !.m_v0 = r.b[s.m_nWires + 1]], ok |-> FALSE]
       ELSE [s |-> CopySolution([s EXCEPT !.m_v0 = r.b[s.m_nWires + 1]],
                                r.b),
             ok |-> TRUE]
  ELSE [s |-> CopySolution([s EXCEPT !.m_v0 = 0], r.b), ok |-> TRUE]

ChargeInputs ==
  UNION {[n : {n}, a : [1..n -> [1..n -> CapEntries]],
          v : [1..n -> ChargeVolts], plane : BOOLEAN] : n \in ChargeCounts}

ChargeWire(i, k) ==
  [x |-> 2 * k, y |-> 0, diameter |-> 1, voltage |-> i.v[k],
   label |-> WireLabel, length |-> 1, tension |-> 1, rho |-> 1, ntrap |-> 1]

RECURSIVE AddChargeWires(_, _, _)
AddChargeWires(s, i, k) ==
  IF k > i.n THEN s
  ELSE AddChargeWires(AddWire(s, ChargeWire(i, k)), i, k + 1)

ChargeCellOf(i) ==
  IF i.plane
  THEN AddPlane(AddChargeWires(CellInit, i, 1), 0,
                [co |-> -2, v |-> 0, lab |-> PlaneLabel])
  ELSE AddChargeWires(CellInit, i, 1)

InitCharge ==
  \E i \in ChargeInputs :
    /\ DeqinvResults(ChargeSystem(ChargeCellOf(i), i.a)) # {}
    /\ caf = ChargeCellOf(i)
    /\ last = [op |-> "Setup", m_a |-> i.a]
    /\ nCalls = 0

CallCharge ==
  /\ last.op = "Setup"
  /\ \E r \in DeqinvResults(ChargeSystem(caf, last.m_a)) :
       /\ caf' = ChargeSolved(caf, r).s
       /\ last' = [op |-> "Charge", m_a |-> last.m_a,
                   sys |-> ChargeSystem(caf, last.m_a), deqinv |-> r,
                   ok |-> ChargeSolved(caf, r).ok]
  /\ UNCHANGED nCalls

NextCharge == CallCharge

SpecCharge == InitCharge /\ [][NextCharge]_vars

(***************************************************************************)
(* SetupWireSignals with more than one Fourier term.  nFourier is 1 after  *)
(* CellInit and no line of ComponentAnalyticField.cc changes it; the       *)
(* configured term count is taken from the description of the component    *)
(* ("a configured mode count N, defaulting to N = 1").  The object has one *)
(* signal matrix m_sigmat: the calls that stored and retrieved the layers  *)
(* (IONIO) and the transforms (CFFT) are comments in the source, so the    *)
(* transform passes copy m_sigmat through fftmat and back, dividing by     *)
(* nFourier on the way back.  A matrix is [mode, routine, inversions,      *)
(* divisions]: the mode whose fill it holds, the routine that filled it,   *)
(* how often it has been inverted and how often divided by nFourier.       *)
(***************************************************************************)
FourierCounts == {1, 2, 4}

\* Line 4540: int(0.1 + log(nFourier) / log(2)).
Mfexp(n) == IF n = 1 THEN 0 ELSE IF n = 2 THEN 1 ELSE 2

\* Lines 4530-4544.
Fperx(scell, n) == Mfexp(n) # 0 /\ scell \in {"B1X", "C1 ", "C2Y"}

Fpery(scell, n) == Mfexp(n) # 0 /\ scell \in {"B1Y", "C1 ", "C2X"}

\* Lines 4546-4554.
ModeMin(f, n) == IF f THEN MinOf(0, 1 - n \div 2) ELSE 0

ModeMax(f, n) == IF f THEN n \div 2 ELSE 0

\* The modes in the order of the loops of lines 4660-4661 and 4805-4806.
ModeList(scell, n) ==
  [k \in 1..((ModeMax(Fperx(scell, n), n) - ModeMin(Fperx(scell, n), n) + 1)
              * (ModeMax(Fpery(scell, n), n) - ModeMin(Fpery(scell, n), n)
                 + 1)) |->
     <<ModeMin(Fperx(scell, n), n)
         + ((k - 1) \div (ModeMax(Fpery(scell, n), n)
                           - ModeMin(Fpery(scell, n), n) + 1)),
       ModeMin(Fpery(scell, n), n)
         + ((k - 1) % (ModeMax(Fpery(scell, n), n)
                       - ModeMin(Fpery(scell, n), n) + 1))>>]

\* Lines 4663-4678: the routine that fills m_sigmat for a mode.
IprRoutine(ftype) ==
  IF ftype = "A  " THEN "IprA00" ELSE IF ftype = "B2X" THEN "IprB2X"
  ELSE IF ftype = "B2Y" THEN "IprB2Y" ELSE IF ftype = "C2X" THEN "IprC2X"
  ELSE IF ftype = "C2Y" THEN "IprC2Y" ELSE IF ftype = "C3 " THEN "IprC30"
  ELSE IF ftype = "D1 " THEN "IprD10" ELSE "IprD30"

FilledMatrix(ftype, mode) ==
  [mode |-> mode, routine |-> IprRoutine(ftype), inversions |-> 0,
   divisions |-> 0]

\* Lines 4804-4832 from mode k on: m is m_sigmat, failAt the inversion at
\* which Numerics::Cinv reports a failure (0: none).  The result lists the
\* matrix handed to Cinv and the matrix left behind for every mode.
RECURSIVE InvertFrom(_, _, _, _, _, _)
InvertFrom(modes, k, m, failAt, nWires, log) ==
  IF k > Len(modes) THEN [ok |-> TRUE, m_sigmat |-> m, log |-> log]
  ELSE IF nWires >= 1 /\ k = failAt
  THEN [ok |-> FALSE, m_sigmat |-> m, log |-> log]
  ELSE InvertFrom(modes, k + 1,
                  IF nWires >= 1
                  THEN [m EXCEPT !.inversions = @ + 1] ELSE m,
                  failAt, nWires,
                  Append(log,
                         [mode |-> modes[k], handed |-> m,
                          left |-> IF nWires >= 1
                                   THEN [m EXCEPT !.inversions = @ + 1]
                                   ELSE m]))

\* Lines 4834-4906: the passes back to the original domain divide m_sigmat
\* by nFourier once with one direction of convolution and twice with two.
TransformedBack(r, fx, fy) ==
  IF ~r.ok \/ ~(fx \/ fy) THEN r
  ELSE [r EXCEPT !.m_sigmat.divisions = IF fx /\ fy THEN 2 ELSE 1]

\* Lines 4619-4906.  The fills of lines 4660-4730 all write m_sigmat, so
\* the fill of the last mode is what the later passes find; the transforms
\* of lines 4732-4802 leave it as it is.
SetupWireSignals(s, n, failAt) ==
  TransformedBack(
    InvertFrom(ModeList(s.m_scellType, n), 1,
               FilledMatrix(FourierType(s.m_scellType),
                            ModeList(s.m_scellType, n)
                              [Len(ModeList(s.m_scellType, n))]),
               failAt, s.m_nWires, <<>>),
    Fperx(s.m_scellType, n), Fpery(s.m_scellType, n))

SignalCells == {c \in PreparedCells : c.m_scellType \in SignalTypes}

InitSignals ==
  /\ caf \in SignalCells
  /\ last \in [op : {"new"}, nFourier : FourierCounts]
  /\ nCalls = 0

CallSetupWireSignals ==
  /\ last.op = "new"
  /\ \E failAt \in 0..1 :
       last' = [op |-> "SetupWireSignals", nFourier |-> last.nFourier,
                modes |-> ModeList(caf.m_scellType, last.nFourier),
                out |-> SetupWireSignals(caf, last.nFourier, failAt)]
  /\ UNCHANGED <<caf, nCalls>>

NextSignals == CallSetupWireSignals

SpecSignals == InitSignals /\ [][NextSignals]_vars

(***************************************************************************)
(* The capacitance matrix of Setup and the signal matrix of the Ipr        *)
(* routines, before inversion, for cells of type A and D3.  An entry of a  *)
(* type A matrix is -0.5 * log(aa); it is kept as the fraction aa =        *)
(* num / den, and two entries are equal when their fractions are.  An      *)
(* entry of a type D3 matrix is kept as the term the source evaluates:     *)
(* "diag" of wire a, "off" of the wires a > b, or "zero" for an element    *)
(* that is left as the resize of lines 4633-4637 made it.                  *)
(***************************************************************************)
Pow2(x) == x * x

\* Lines 2106-2124.
Ynplax(s) == s.m_ynplan[0] \/ s.m_ynplan[1]

Coplax(s) == IF s.m_ynplan[0] THEN s.m_coplan[0] ELSE s.m_coplan[1]

Ynplay(s) == s.m_ynplan[2] \/ s.m_ynplan[3]

Coplay(s) == IF s.m_ynplan[2] THEN s.m_coplan[2] ELSE s.m_coplan[3]

Fraction(n, d) == [num |-> n, den |-> d]

DivideBy(f, yes, d) == IF yes THEN Fraction(f.num, f.den * d) ELSE f

MultiplyBy(f, yes, n) == IF yes THEN Fraction(f.num * n, f.den) ELSE f

SameFraction(f, g) == f.num * g.den = g.num * f.den

\* Lines 2202-2211: the diagonal element of wire w.
SetupA00Diagonal(s, w) ==
  MultiplyBy(
    DivideBy(
      DivideBy(Fraction(w.d * w.d, 4),
               Ynplax(s), 4 * Pow2(w.x - Coplax(s))),
      Ynplay(s), 4 * Pow2(w.y - Coplay(s))),
    Ynplax(s) /\ Ynplay(s),
    4 * (Pow2(w.x - Coplax(s)) + Pow2(w.y - Coplay(s))))

\* Lines 2214-2227: the element of the wires w and v.
SetupA00OffDiagonal(s, w, v) ==
  MultiplyBy(
    DivideBy(
      DivideBy(Fraction(Pow2(w.x - v.x) + Pow2(w.y - v.y), 1),
               Ynplax(s),
               Pow2(w.x + v.x - 2 * Coplax(s)) + Pow2(w.y - v.y)),
      Ynplay(s),
      Pow2(w.x - v.x) + Pow2(w.y + v.y - 2 * Coplay(s))),
    Ynplax(s) /\ Ynplay(s),
    Pow2(w.x + v.x - 2 * Coplax(s)) + Pow2(w.y + v.y - 2 * Coplay(s)))

\* Lines 2200-2231.
SetupA00Matrix(s) ==
  [i \in 0..(s.m_nWires - 1), j \in 0..(s.m_nWires - 1) |->
     IF i = j THEN SetupA00Diagonal(s, Wire(s, i))
     ELSE SetupA00OffDiagonal(s, Wire(s, MinOf(i, j)), Wire(s, MaxOf(i, j)))]

\* Lines 5126-5138, with dx = mx * m_sx and dy = my * m_sy.
IprA00Diagonal(s, w, dx, dy) ==
  MultiplyBy(
    DivideBy(
      DivideBy(IF dx # 0 \/ dy # 0 THEN Fraction(dx * dx + dy * dy, 1)
               ELSE Fraction(w.d * w.d, 4),
               Ynplax(s), 2 * Pow2(w.x - Coplax(s)) + dy * dy),
      Ynplay(s), 2 * Pow2(w.y - Coplay(s)) + dx * dx),
    Ynplax(s) /\ Ynplay(s),
    4 * (Pow2(w.x - Coplax(s)) + Pow2(w.y - Coplay(s))))

\* Lines 5140-5154.
IprA00OffDiagonal(s, w, v, dx, dy) ==
  MultiplyBy(
    DivideBy(
      DivideBy(Fraction(Pow2(w.x + dx - v.x) + Pow2(w.y + dy - v.y), 1),
               Ynplax(s),
               Pow2(2 * Coplax(s) - w.x - dx - v.x)
                 + Pow2(w.y + dy - v.y)),
      Ynplay(s),
      Pow2(w.x + dx - v.x) + Pow2(2 * Coplay(s) - w.y - dy - v.y)),
    Ynplax(s) /\ Ynplay(s),
    Pow2(2 * Coplax(s) - w.x - dx - v.x)
      + Pow2(2 * Coplay(s) - w.y - dy - v.y))

\* Lines 5113-5159.
IprA00(s, mx, my) ==
  [i \in 0..(s.m_nWires - 1), j \in 0..(s.m_nWires - 1) |->
     IF i = j THEN IprA00Diagonal(s, Wire(s, i), mx * s.m_sx, my * s.m_sy)
     ELSE IprA00OffDiagonal(s, Wire(s, MinOf(i, j)), Wire(s, MaxOf(i, j)),
                            mx * s.m_sx, my * s.m_sy)]

\* Lines 2844-2845 and 5437-5438: the diagonal term of wire i.
D30Diagonal(i) == [f |-> "diag", a |-> i, b |-> i]

\* Lines 2848-2849 and 5441-5442: the term of the wires i > j.
D30OffDiagonal(i, j) == [f |-> "off", a |-> i, b |-> j]

ZeroEntry == [f |-> "zero", a |-> 0, b |-> 0]

\* Lines 2839-2853: the inner loop runs over j < i.
SetupD30Matrix(s) ==
  [i \in 0..(s.m_nWires - 1), j \in 0..(s.m_nWires - 1) |->
     IF i = j THEN D30Diagonal(i)
     ELSE D30OffDiagonal(MaxOf(i, j), MinOf(i, j))]

\* Lines 5432-5446: the inner loop runs over j < i - 1.
IprD30(s) ==
  [i \in 0..(s.m_nWires - 1), j \in 0..(s.m_nWires - 1) |->
     IF i = j THEN D30Diagonal(i)
     ELSE IF MinOf(i, j) < MaxOf(i, j) - 1
     THEN D30OffDiagonal(MaxOf(i, j), MinOf(i, j))
     ELSE ZeroEntry]

MatrixTubeRadius == 5

MatrixPlanes == {<<>>, <<<<-3, 1>>>>, <<<<3, 0>>>>}

MatrixInputs ==
  [wires : {q \in UNION {[1..n -> {-2, 0, 2} \X {0, 2}] : n \in 1..3} :
              \A a, b \in DOMAIN q :
                a # b => q[a] # q[b]},
   planesX : MatrixPlanes, planesY : MatrixPlanes, tube : BOOLEAN]

MatrixWire(w, k) ==
  [x |-> w[1], y |-> w[2], diameter |-> 1 + (Abs(w[1]) \div 2), voltage |-> k,
   label |-> WireLabel, length |-> 1, tension |-> 1, rho |-> 1, ntrap |-> 1]

RECURSIVE AddMatrixWires(_, _, _)
AddMatrixWires(s, ws, k) ==
  IF k > Len(ws) THEN s
  ELSE AddMatrixWires(AddWire(s, MatrixWire(ws[k], k)), ws, k + 1)

MatrixCellOf(i) ==
  IF i.tube
  THEN AddTube(AddMatrixWires(CellInit, i.wires, 1),
               [radius |-> MatrixTubeRadius, voltage |-> 0, nEdges |-> 4,
                label |-> TubeLabel])
  ELSE AddPlanesAt(AddPlanesAt(AddMatrixWires(CellInit, i.wires, 1),
                               0, i.planesX, 1), 2, i.planesY, 1)

MatrixCells ==
  {Prepare(MatrixCellOf(i), GoodOutcome).s :
     i \in {k \in MatrixInputs :
              /\ k.tube => (k.planesX = <<>> /\ k.planesY = <<>>)
              /\ Prepare(MatrixCellOf(k), GoodOutcome).ok}}

InitMatrices ==
  /\ caf \in MatrixCells
  /\ last = [op |-> "new"]
  /\ nCalls = 0

\* The matrix of Setup and the matrix of the first Ipr call of
\* SetupWireSignals (mode (0, 0)) on the same cell.
CallFill ==
  /\ last.op = "new"
  /\ caf.m_scellType \in {"A  ", "D3 "}
  /\ last' = [op |-> "Fill",
              m_a |-> IF caf.m_scellType = "A  " THEN SetupA00Matrix(caf)
                      ELSE SetupD30Matrix(caf),
              m_sigmat |-> IF caf.m_scellType = "A  " THEN IprA00(caf, 0, 0)
                           ELSE IprD30(caf)]
  /\ UNCHANGED <<caf, nCalls>>

NextMatrices == CallFill

SpecMatrices == InitMatrices /\ [][NextMatrices]_vars

(***************************************************************************)
(* SetupPlaneSignals: the weighting-field charges of the planes and of the *)
(* tube, from the inverted signal matrix sig (sig[i + 1][j + 1] is         *)
(* m_sigmat[i][j]).  The weighting voltage vw of a wire for a plane is the *)
(* fraction VwNum / VwDen; VwDen is the same for all wires of a plane, so  *)
(* the charges of a plane are kept as their numerators over VwDen.         *)
(***************************************************************************)
\* The coordinate of wire w along the axis of plane p.
Along(w, p) == IF p < 2 THEN w.x ELSE w.y

Periodic(s, p) == IF p < 2 THEN s.m_perx ELSE s.m_pery

Period(s, p) == IF p < 2 THEN s.m_sx ELSE s.m_sy

\* The other plane of the axis of plane p.
Opposite(p) == IF p % 2 = 0 THEN p + 1 ELSE p - 1

\* Lines 4976-4982, 4993-4999, 5010-5016 and 5027-5033.
VwNum(s, p, w) ==
  IF s.m_ynplan[Opposite(p)]
  THEN -(s.m_coplan[Opposite(p)] - Along(w, p))
  ELSE IF Periodic(s, p)
  THEN IF p % 2 = 0 THEN -(s.m_coplan[p] + Period(s, p) - Along(w, p))
       ELSE -(Along(w, p) - s.m_coplan[p] + Period(s, p))
  ELSE -1

VwDen(s, p) ==
  IF s.m_ynplan[Opposite(p)] THEN s.m_coplan[Opposite(p)] - s.m_coplan[p]
  ELSE IF Periodic(s, p) THEN Period(s, p)
  ELSE 1

\* Lines 4984-4986 and 5001-5003: m_qplane[p][j] += m_sigmat[i][j] * vw,
\* summed over the wires i.
QplaneX(s, sig, p, j) ==
  SumTo([i \in 1..s.m_nWires |-> sig[i][j + 1] * VwNum(s, p, s.m_w[i])],
        s.m_nWires)

\* Lines 5018-5020 and 5035-5037: m_qplane[p][i] += m_sigmat[i][j] * vw,
\* summed over j.
QplaneY(s, sig, p, i) ==
  SumTo([j \in 1..s.m_nWires |-> sig[i + 1][j] * VwNum(s, p, Wire(s, i))],
        s.m_nWires)

\* Lines 5041-5046: m_qplane[4][i] -= m_sigmat[i][j], summed over j.
QplaneTube(s, sig, i) ==
  -SumTo([j \in 1..s.m_nWires |-> sig[i + 1][j]], s.m_nWires)

\* Lines 4955-5057 for the single layer (0, 0).
SetupPlaneSignals(s, sig) ==
  [p \in 0..4 |->
     [j \in 0..(s.m_nWires - 1) |->
        IF p = 4 THEN IF s.m_tube THEN QplaneTube(s, sig, j) ELSE 0
        ELSE IF ~s.m_ynplan[p] THEN 0
        ELSE IF p < 2 THEN QplaneX(s, sig, p, j)
        ELSE QplaneY(s, sig, p, j)]]

PlaneSignalPeriod == 8

PlaneSignalInputs ==
  [wires : {q \in UNION {[1..n -> {-1, 1} \X {-1, 1}] : n \in 1..2} :
              \A a, b \in DOMAIN q : a # b => q[a] # q[b]},
   planesX : {<<>>, <<<<-3, 1>>>>, <<<<-3, 1>>, <<3, 0>>>>},
   planesY : {<<>>, <<<<3, 1>>>>, <<<<-3, 1>>, <<3, 0>>>>},
   tube : BOOLEAN, per : BOOLEAN]

PlaneSignalCellOf(i) ==
  IF i.tube
  THEN AddTube(AddMatrixWires(CellInit, i.wires, 1),
               [radius |-> MatrixTubeRadius, voltage |-> 0, nEdges |-> 0,
                label |-> TubeLabel])
  ELSE SetPeriodicityY(
         SetPeriodicityX(
           AddPlanesAt(AddPlanesAt(AddMatrixWires(CellInit, i.wires, 1),
                                   0, i.planesX, 1), 2, i.planesY, 1),
           IF i.per THEN PlaneSignalPeriod ELSE 0),
         IF i.per THEN PlaneSignalPeriod ELSE 0)

PlaneSignalCells ==
  {Prepare(PlaneSignalCellOf(i), GoodOutcome).s :
     i \in {k \in PlaneSignalInputs :
              /\ k.tube => (k.planesX = <<>> /\ k.planesY = <<>> /\ ~k.per)
              /\ Prepare(PlaneSignalCellOf(k), GoodOutcome).ok}}

\* The inverse of a symmetric matrix is symmetric.
SignalMatrices(n) ==
  {m \in [1..n -> [1..n -> {1, 2, 3}]] :
     \A i, j \in 1..n : m[i][j] = m[j][i]}

InitPlaneSignals ==
  /\ caf \in PlaneSignalCells
  /\ \E m \in SignalMatrices(caf.m_nWires) :
       last = [op |-> "new", m_sigmat |-> m]
  /\ nCalls = 0

CallSetupPlaneSignals ==
  /\ last.op = "new"
  /\ last' = [op |-> "SetupPlaneSignals", m_sigmat |-> last.m_sigmat,
              m_qplane |-> SetupPlaneSignals(caf, last.m_sigmat)]
  /\ UNCHANGED <<caf, nCalls>>

NextPlaneSignals == CallSetupPlaneSignals

SpecPlaneSignals == InitPlaneSignals /\ [][NextPlaneSignals]_vars

(***************************************************************************)
(* IsInTrapRadius.  The point is moved to the basic cell as in Field; the  *)
(* result is [trapped, wire, xw, yw, rw2]: the value returned, the index   *)
(* of the wire found (-1: none), its position moved back by the x-period,  *)
(* and rw2 = 2 * rw, its diameter.                                         *)
(***************************************************************************)
\* Lines 290-291: the wire is skipped for the charge qin.
WrongCharge(qin, w) == qin * w.e > 0

\* Lines 292-296: r2 < rTrap * rTrap with rTrap = 0.5 * d * nTrap.
InTrapRadius(w, p) ==
  4 * (Pow2(w.x - p.x) + Pow2(w.y - p.y)) < Pow2(w.d * w.nTrap)

\* Lines 289-315: the first wire that is not skipped and has the point
\* within its trap radius, from wire i on; -1 if there is none.
RECURSIVE TrapWireFrom(_, _, _, _)
TrapWireFrom(s, qin, p, i) ==
  IF i >= s.m_nWires THEN -1
  ELSE IF ~WrongCharge(qin, Wire(s, i)) /\ InTrapRadius(Wire(s, i), p)
  THEN i
  ELSE TrapWireFrom(s, qin, p, i + 1)

TrapResult(s, i, xin) ==
  IF i < 0 THEN [trapped |-> FALSE, wire |-> -1, xw |-> 0, yw |-> 0,
                 rw2 |-> 0]
  ELSE [trapped |-> TRUE, wire |-> i,
        xw |-> Wire(s, i).x
                 + (IF s.m_perx THEN s.m_sx * RoundDiv(xin, s.m_sx) ELSE 0),
        yw |-> Wire(s, i).y, rw2 |-> Wire(s, i).d]

\* Lines 255-318.
IsInTrapRadius(s, qin, xin, yin) ==
  TrapResult(s, TrapWireFrom(s, qin, FoldedPoint(s, xin, yin), 0), xin)

TrapCharges == {-1, 1}

\* Cells as Prepare leaves them and cells that have not been prepared.
InitTrap ==
  /\ caf \in PreparedCells \cup {FieldCellOf(i) : i \in FieldInputs}
  /\ last = [op |-> "new"]
  /\ nCalls = 0

CallIsInTrapRadius ==
  \E qin \in TrapCharges, xin \in FieldXs, yin \in FieldYs :
    /\ (caf.m_tube /\ caf.m_pery) => (yin = 0 /\ xin >= 0)
    /\ last' = [op |-> "IsInTrapRadius", qin |-> qin, xin |-> xin,
                yin |-> yin, out |-> IsInTrapRadius(caf, qin, xin, yin)]
    /\ UNCHANGED <<caf, nCalls>>

NextTrap == CallIsInTrapRadius

SpecTrap == InitTrap /\ [][NextTrap]_vars

(***************************************************************************)
(* The plane getters, on cells before and after CellCheck.  lo is 0 for    *)
(* GetNumberOfPlanesX / GetPlaneX and 2 for GetNumberOfPlanesY / GetPlaneY.*)
(***************************************************************************)
\* Lines 794-812.
GetNumberOfPlanes(s, lo) ==
  IF s.m_ynplan[lo] /\ s.m_ynplan[lo + 1] THEN 2
  ELSE IF s.m_ynplan[lo] \/ s.m_ynplan[lo + 1] THEN 1
  ELSE 0

\* Lines 836-866: [ok |-> the value returned, co, v, label |-> the outputs].
GetPlane(s, lo, i) ==
  IF i >= 2 \/ (i = 1 /\ ~s.m_ynplan[lo + 1])
  THEN [ok |-> FALSE, co |-> 0, v |-> 0, label |-> ""]
  ELSE [ok |-> TRUE, co |-> s.m_coplan[lo + i], v |-> s.m_vtplan[lo + i],
        label |-> s.planes[lo + i].type]

GetterInputs ==
  [wires : {<<0>>, <<-2, 0>>}, planesX : UNION {[1..n -> CheckPlanes] :
                                                  n \in 0..2},
   planesY : UNION {[1..n -> CheckPlanes] : n \in 0..2},
   strip : {FALSE}, tube : {FALSE}, perx : BOOLEAN, pery : {FALSE}]

InitGetters ==
  /\ caf \in {CheckCellOf(i) : i \in GetterInputs}
            \cup {NumberingCellOf(i) : i \in NumberingInputs}
  /\ last = [op |-> "new"]
  /\ nCalls = 0

CallGetPlane ==
  \E lo \in {0, 2}, i \in 0..2 :
    /\ last.op \in {"new", "CellCheck"}
    /\ last' = [op |-> "GetPlane", lo |-> lo, i |-> i,
                count |-> GetNumberOfPlanes(caf, lo),
                out |-> GetPlane(caf, lo, i), checked |-> last.op # "new"]
    /\ UNCHANGED <<caf, nCalls>>

NextGetters == CallCellCheck \/ CallGetPlane

SpecGetters == InitGetters /\ [][NextGetters]_vars

(***************************************************************************)
(* Properties.                                                             *)
(***************************************************************************)

\* C1: in every reachable state, an accepted AddWire followed at once by
\* GetWire(m_nWires - 1) returns true with the x, y, diameter, voltage,
\* label, length and ntrap that were passed, and charge 0.
C1_AddWireGetWireRoundTrip ==
  (last.op = "AddWire" /\ last.accepted)
    => GetWire(caf, caf.m_nWires - 1)
         = [ok |-> TRUE, x |-> last.args.x, y |-> last.args.y,
            diameter |-> last.args.diameter, voltage |-> last.args.voltage,
            label |-> last.args.label, length |-> last.args.length,
            charge |-> 0, ntrap |-> last.args.ntrap]

\* C2: after an accepted AddWire, AddTube, AddPlaneX or AddPlaneY both
\* m_cellset and m_sigset are false, and an ElectricField or
\* GetVoltageRange call that comes next calls Prepare, which starts over
\* with the cell check.
C2_ElementMutatorsInvalidate ==
  [][/\ (last'.op \in {"AddWire", "AddTube", "AddPlaneX", "AddPlaneY"}
         /\ last'.accepted)
          => (~caf'.m_cellset /\ ~caf'.m_sigset)
     /\ (/\ last.op \in {"AddWire", "AddTube", "AddPlaneX", "AddPlaneY"}
         /\ last.accepted
         /\ last'.op \in {"ElectricField", "GetVoltageRange"})
          => (/\ last'.out.prepared
              /\ Len(last'.out.ran) >= 1
              /\ last'.out.ran[1] = "CellCheck")]_vars

\* An element is added to a cell whose field and signal solves were both
\* valid.
C2_Witness ==
  /\ last.op \in {"AddWire", "AddTube", "AddPlaneX", "AddPlaneY"}
  /\ last.accepted
  /\ last.wasSet

\* C3: after a SetPeriodicityX or SetPeriodicityY call with a valid length
\* that enables the periodicity or changes the length of an enabled
\* periodicity, m_cellset and m_sigset are false.
C3_PeriodicityChangeInvalidates ==
  [][/\ (/\ last'.op = "SetPeriodicityX"
         /\ last'.accepted
         /\ (~caf.m_perx \/ caf.m_sx # last'.args))
          => (~caf'.m_cellset /\ ~caf'.m_sigset)
     /\ (/\ last'.op = "SetPeriodicityY"
         /\ last'.accepted
         /\ (~caf.m_pery \/ caf.m_sy # last'.args))
          => (~caf'.m_cellset /\ ~caf'.m_sigset)]_vars

\* C4: a mutator call with arguments the mutator rejects leaves the whole
\* object as it was: AddWire with a diameter, tension, density, length or
\* ntrap that is not positive; AddTube with a radius that is not positive
\* or with a negative number of edges, 1 or 2; SetPeriodicityX / Y with a
\* length below Small; AddStripOnPlaneX / Y and AddPixelOnPlaneX / Y with
\* an extent of width zero, an invalid direction or no plane on the axis.
C4_RejectedCallsChangeNothing ==
  [][/\ (/\ last'.op = "AddWire"
         /\ (\/ last'.args.diameter <= 0 \/ last'.args.tension <= 0
             \/ last'.args.rho <= 0 \/ last'.args.length <= 0
             \/ last'.args.ntrap <= 0))
          => caf' = caf
     /\ (/\ last'.op = "AddTube"
         /\ (\/ last'.args.radius <= 0 \/ last'.args.nEdges < 0
             \/ last'.args.nEdges \in {1, 2}))
          => caf' = caf
     /\ (last'.op \in {"SetPeriodicityX", "SetPeriodicityY"}
         /\ last'.args <= 0)
          => caf' = caf
     /\ (/\ last'.op \in {"AddStripOnPlaneX", "AddStripOnPlaneY"}
         /\ (\/ last'.args.smax = last'.args.smin
             \/ last'.args.direction \notin {"1", "z"}
             \/ (last'.op = "AddStripOnPlaneX"
                 /\ ~caf.m_ynplan[0] /\ ~caf.m_ynplan[1])
             \/ (last'.op = "AddStripOnPlaneY"
                 /\ ~caf.m_ynplan[2] /\ ~caf.m_ynplan[3])))
          => caf' = caf
     /\ (/\ last'.op \in {"AddPixelOnPlaneX", "AddPixelOnPlaneY"}
         /\ (\/ last'.args.smax = last'.args.smin
             \/ last'.args.zmax = last'.args.zmin
             \/ (last'.op = "AddPixelOnPlaneX"
                 /\ ~caf.m_ynplan[0] /\ ~caf.m_ynplan[1])
             \/ (last'.op = "AddPixelOnPlaneY"
                 /\ ~caf.m_ynplan[2] /\ ~caf.m_ynplan[3])))
          => caf' = caf]_vars

\* A SetPeriodicityX call with length 0 has been rejected on a cell that is
\* solved.
C4_Witness ==
  /\ last.op = "SetPeriodicityX"
  /\ ~last.accepted
  /\ last.args = 0
  /\ caf.m_cellset

\* C5: ElectricField calls Field only while m_cellset is true; when
\* Prepare fails it returns status -11, a zero field, potential 0 and no
\* medium, without calling Field, and m_cellset is false afterwards.
C5_FieldOnlyOnSolvedCell ==
  last.op = "ElectricField"
    => /\ last.out.fieldCalled => last.out.cellsetAtField
       /\ (last.out.prepared /\ ~last.out.prepareOk)
            => /\ last.out.status = -11
               /\ last.out.field = "zero"
               /\ last.out.volt = 0
               /\ last.out.medium = "null"
               /\ ~last.out.fieldCalled
               /\ ~caf.m_cellset

\* ElectricField has returned after a Prepare that failed in Setup.
C5_Witness ==
  /\ last.op = "ElectricField"
  /\ last.out.prepared
  /\ ~last.out.prepareOk
  /\ last.out.ran = <<"CellCheck", "CellType", "Setup">>

\* C6: when ElectricField has returned -11 and the next call is again
\* ElectricField (no mutator in between), that call returns -11 without
\* entering the cell check, the classification or the charge solve.
C6_FailureIsTerminal ==
  [][(/\ last.op = "ElectricField"
      /\ last.out.status = -11
      /\ last'.op = "ElectricField")
       => (last'.out.status = -11 /\ last'.out.ran = <<>>)]_vars

\* C7: whenever the matrix inversion of Charge reports failure during an
\* ElectricField call, with or without planes or a tube, the call returns
\* -11, m_cellset is false afterwards and no wire has got a new charge.
C7_InversionFailurePropagates ==
  [][(last'.op = "ElectricField" /\ last'.out.deqinv = "failed")
       => /\ last'.out.status = -11
          /\ ~caf'.m_cellset
          /\ {caf'.m_w[k].e : k \in 1..caf'.m_nWires}
               \subseteq {caf.m_w[k].e : k \in 1..Len(caf.m_w)}]_vars

\* The thirteen topology tags and the code that goes with each.
TopologyTags ==
  {"A  ", "B1X", "B1Y", "B2X", "B2Y", "C1 ", "C2X", "C2Y", "C3 ", "D1 ",
   "D2 ", "D3 ", "D4 "}

TopologyCode(tag) ==
  CASE tag = "A  " -> "A00"
    [] tag = "C1 " -> "C10"
    [] tag = "C3 " -> "C30"
    [] tag = "D1 " -> "D10"
    [] tag = "D2 " -> "D20"
    [] tag = "D3 " -> "D30"
    [] tag = "D4 " -> "D40"
    [] OTHER -> tag

\* C8: for every combination of m_perx, m_pery, the tube, its edge count
\* and the four planes, CellType returns true and leaves one of the
\* thirteen tags in m_scellType with the matching code in m_cellType; the
\* tag is the same whatever the plane coordinates are.
C8_CellTypeTotal ==
  [][last'.op = "CellType"
       => /\ last'.ok
          /\ caf'.m_scellType \in TopologyTags
          /\ caf'.m_cellType = TopologyCode(caf'.m_scellType)
          /\ \A c \in [0..3 -> PlaneCoords] :
               CellType([caf EXCEPT !.m_coplan = c]).s.m_scellType
                 = caf'.m_scellType]_vars

\* CellType has classified the cell with all four planes and no
\* periodicity, the last rule before the 'not recognised' return.
C8_Witness ==
  /\ last.op = "CellType"
  /\ last.ok
  /\ \A p \in 0..3 : caf.m_ynplan[p]
  /\ ~caf.m_perx /\ ~caf.m_pery /\ ~caf.m_tube
  /\ caf.m_scellType = "C3 "

\* C9: for a tube whose edge count is neither 0 nor in 3..8, CellType
\* returns true, sets the edge count to 0 and assigns the tag of the round
\* tube: D1 without phi-periodicity, D2 with it.
C9_UnsupportedEdgesGiveRoundTube ==
  (last.op = "CellType" /\ last.tube /\ last.ntube \notin ({0} \cup (3..8)))
    => /\ last.ok
       /\ caf.m_ntube = 0
       /\ caf.m_scellType = (IF caf.m_pery THEN "D2 " ELSE "D1 ")

\* The conductors that are left in the cell and their potentials.
RemainingElements ==
  caf.m_nWires + Cardinality({p \in 0..3 : caf.m_ynplan[p]})
  + (IF caf.m_tube THEN 1 ELSE 0)

RemainingVoltages ==
  {caf.m_w[k].v : k \in 1..caf.m_nWires}
  \cup {caf.m_vtplan[p] : p \in {q \in 0..3 : caf.m_ynplan[q]}}
  \cup (IF caf.m_tube THEN {caf.m_vttube} ELSE {})

\* C10: in a call that runs Prepare, CellCheck returns false (Prepare stops
\* after the cell check and m_cellset is false) exactly when fewer than 2
\* elements are left after pruning or all the potentials left are equal.
C10_CellCheckRejection ==
  (/\ last.op \in {"ElectricField", "GetVoltageRange", "WeightingField"}
   /\ Len(last.out.ran) >= 1)
    => /\ (last.out.ran = <<"CellCheck">>)
            <=> (RemainingElements < 2
                 \/ Cardinality(RemainingVoltages) <= 1)
       /\ last.out.ran = <<"CellCheck">> => ~caf.m_cellset

\* The cell check has rejected a cell of two or more elements that are all
\* at the same potential.
C10_Witness ==
  /\ last.op = "ElectricField"
  /\ last.out.ran = <<"CellCheck">>
  /\ RemainingElements >= 2


\* C15: WeightingField and WeightingPotential return zero, without
\* reaching Wfield, whenever no readout group exists, the label is empty or
\* is not a registered group, or PrepareSignals fails; with no readout
\* group the call runs neither Prepare nor PrepareSignals and leaves the
\* object as it was.
C15_WeightingFieldZeroCases ==
  [][last'.op = "WeightingField"
       => /\ (\/ Len(caf.m_readout) = 0
              \/ last'.out.label = ""
              \/ ReadoutIndex(caf, last'.out.label) < 0
              \/ (last'.out.prepared /\ ~last'.out.signalsOk))
               => (last'.out.result = "zero" /\ ~last'.out.called)
          /\ Len(caf.m_readout) = 0
               => (/\ caf' = caf
                   /\ ~last'.out.prepared
                   /\ last'.out.ran = <<>>)]_vars

\* WeightingField has run Prepare and PrepareSignals, and PrepareSignals
\* has failed in the signal matrices, for the label of a registered group.
C15_Witness ==
  /\ last.op = "WeightingField"
  /\ last.out.label \in ReadoutLabels
  /\ last.out.prepared
  /\ ~last.out.signalsOk
  /\ last.out.ran = <<"CellCheck", "CellType", "Setup", "PrepareStrips">>
  /\ last.out.result = "zero"

\* C16: in every reachable state m_sigset implies m_cellset and a readout
\* group.
C16_SignalsImplyCell ==
  caf.m_sigset => (caf.m_cellset /\ Len(caf.m_readout) >= 1)

\* PrepareSignals has run Prepare itself and has set m_sigset.
C16_Witness ==
  /\ last.op = "WeightingField"
  /\ last.out.prepared
  /\ Len(last.out.ran) = 4
  /\ caf.m_sigset

\* The strips and pixels of the cell that carry the label l.
StripsLabelled(s, l) ==
  UNION {{<<p, "strips1", k>> :
            k \in {j \in 1..Len(s.planes[p].strips1) :
                     s.planes[p].strips1[j].type = l}}
         \cup {<<p, "strips2", k>> :
                 k \in {j \in 1..Len(s.planes[p].strips2) :
                          s.planes[p].strips2[j].type = l}}
         \cup {<<p, "pixels", k>> :
                 k \in {j \in 1..Len(s.planes[p].pixels) :
                          s.planes[p].pixels[j].type = l}} : p \in 0..4}

\* C17: when a strip or pixel has been added under the label of a
\* registered readout group and the next call is WeightingField for that
\* label and reaches Wfield, the strips and pixels of that label enter the
\* sums, each with a positive gap.
C17_NewStripIsReadOut ==
  [][(/\ last.op \in {"AddStripOnPlaneX", "AddStripOnPlaneY",
                      "AddPixelOnPlaneX", "AddPixelOnPlaneY"}
      /\ last.accepted
      /\ ReadoutIndex(caf, last.args.label) >= 0
      /\ last'.op = "WeightingField"
      /\ last'.out.label = last.args.label
      /\ last'.out.called)
       => /\ StripsLabelled(caf', last.args.label) # {}
          /\ StripsLabelled(caf', last.args.label) \subseteq last'.out.strips
          /\ \A id \in StripsLabelled(caf', last.args.label) :
               caf'.planes[id[1]][id[2]][id[3]].gap > 0]_vars

\* C18: AddPlaneX (AddPlaneY) is rejected and changes nothing while both
\* x-planes (y-planes) are present; otherwise the new plane goes to a slot
\* that was free, and the other slot of the axis keeps its presence flag,
\* coordinate, potential and plane record.
C18_AddPlaneUsesFreeSlot ==
  [][\A lo \in {0, 2} :
       last'.op = (IF lo = 0 THEN "AddPlaneX" ELSE "AddPlaneY")
         => IF caf.m_ynplan[lo] /\ caf.m_ynplan[lo + 1]
            THEN ~last'.accepted /\ caf' = caf
            ELSE /\ last'.accepted
                 /\ \E slot \in {lo, lo + 1} :
                      LET other == 2 * lo + 1 - slot
                      IN /\ ~caf.m_ynplan[slot]
                         /\ caf'.m_ynplan[slot]
                         /\ caf'.m_coplan[slot] = last'.args.co
                         /\ caf'.m_vtplan[slot] = last'.args.v
                         /\ caf'.planes[slot].type = last'.args.lab
                         /\ caf'.m_ynplan[other] = caf.m_ynplan[other]
                         /\ caf'.m_coplan[other] = caf.m_coplan[other]
                         /\ caf'.m_vtplan[other] = caf.m_vtplan[other]
                         /\ caf'.planes[other] = caf.planes[other]]_vars

\* AddPlaneX has stored a plane in the lower slot while the upper slot held
\* a plane: the cell check had renumbered the only x-plane before.
C18_Witness ==
  /\ last.op = "AddPlaneX"
  /\ last.accepted
  /\ caf.m_ynplan[0] /\ caf.m_ynplan[1]
  /\ caf.m_coplan[0] = last.args.co
  /\ caf.m_coplan[1] # last.args.co


\* Wires a and b of cell s overlap: the squared separation of the centres,
\* taken to the nearest periodic image on each periodic axis, is less than
\* a quarter of the squared sum of the diameters.  In a tube with
\* phi-periodicity the periodic axis is the angle; the period divides 180
\* degrees, so two wires on the x-axis are |ra - rb| apart.
ImagesOverlap(s, a, b) ==
  IF s.m_tube /\ s.m_pery
  THEN 4 * (Abs(a.x) - Abs(b.x)) * (Abs(a.x) - Abs(b.x))
         < (a.d + b.d) * (a.d + b.d)
  ELSE \E n, m \in -2..2 :
         LET dx == a.x - b.x - n * (IF s.m_perx THEN s.m_sx ELSE 0)
             dy == a.y - b.y - m * (IF s.m_pery THEN s.m_sy ELSE 0)
         IN 4 * (dx * dx + dy * dy) < (a.d + b.d) * (a.d + b.d)

\* The input numbers (ntrap) of the wires that are left in cell s.
Survivors(s) == {s.m_w[k].nTrap : k \in 1..s.m_nWires}

\* C11: after CellCheck no two of the wires that are left overlap; the
\* wires that are left are in input order and are the input wires at their
\* folded places; a wire that was removed is at a wrong position or
\* overlaps a wire that is left and has a lower input number.
C11_NoOverlapInInputOrder ==
  last.op = "CellCheck"
    => /\ \A k, l \in 1..caf.m_nWires :
            k < l => /\ ~ImagesOverlap(caf, caf.m_w[k], caf.m_w[l])
                     /\ caf.m_w[k].nTrap < caf.m_w[l].nTrap
       /\ \A k \in 1..caf.m_nWires :
            /\ caf.m_w[k].nTrap \in 1..last.before.m_nWires
            /\ caf.m_w[k] = CellCheckPlaced(last.before).m_w[caf.m_w[k].nTrap]
       /\ \A j \in (1..last.before.m_nWires) \ Survivors(caf) :
            \/ WrongPosition(CellCheckPlaced(last.before), j - 1)
            \/ \E k \in 1..caf.m_nWires :
                 /\ caf.m_w[k].nTrap < j
                 /\ ImagesOverlap(caf, caf.m_w[k],
                                  CellCheckPlaced(last.before).m_w[j])

\* C12: after CellCheck an x-plane and a y-plane that are both present are
\* at the same potential.
C12_NoCrossingConflict ==
  last.op = "CellCheck"
    => \A i \in {0, 1}, j \in {2, 3} :
         (caf.m_ynplan[i] /\ caf.m_ynplan[j])
           => caf.m_vtplan[i] = caf.m_vtplan[j]

\* The planes beyond which the point p lies.
PlanesBeyond(s, p) ==
  {j \in 0..3 :
     /\ s.m_ynplan[j]
     /\ \/ j = 0 /\ p.x < s.m_coplan[0]
        \/ j = 1 /\ p.x > s.m_coplan[1]
        \/ j = 2 /\ p.y < s.m_coplan[2]
        \/ j = 3 /\ p.y > s.m_coplan[3]}

\* The point p lies outside the tube or, without a tube, beyond a plane.
OutsideCell(s, p) ==
  IF s.m_tube THEN ~InTube(p.x, p.y, s.m_cotube, s.m_ntube)
  ELSE PlanesBeyond(s, p) # {}

\* The potentials a point outside the cell may be given.
BoundaryVolts(s, p) ==
  IF s.m_tube THEN {s.m_vttube}
  ELSE {s.m_vtplan[j] : j \in PlanesBeyond(s, p)}

SentinelsAt(s, p, out) ==
  /\ OutsideCell(s, p) =>
       /\ out.status = -4
       /\ out.volt \in BoundaryVolts(s, p)
       /\ out.evaluator = "none"
  /\ (~OutsideCell(s, p) /\ WiresHit(s, p) # {}) =>
       /\ out.status - 1 \in WiresHit(s, p)
       /\ out.volt = Wire(s, out.status - 1).v
       /\ out.evaluator = "none"
  /\ out.status = 0 => (~OutsideCell(s, p) /\ WiresHit(s, p) = {})
  /\ out.evaluator # "none" => out.status = 0

PeriodX(s) == IF s.m_perx THEN s.m_sx ELSE 0

PeriodY(s) == IF s.m_pery THEN s.m_sy ELSE 0

\* C14: in a periodic cell without a tube Field gives, at every point
\* shifted by whole periods, the result it gives at the point itself: the
\* same status and potential, the same folded point handed to the evaluator
\* and the same point-charge terms.
C14_PeriodicInvariance ==
  (last.op = "Field" /\ ~caf.m_tube) =>
    \A n, m \in {-1, 0, 1} :
      Field(caf, last.xin + n * PeriodX(caf), last.yin + m * PeriodY(caf))
        = last.out

\* C20: on a cell on which Prepare has succeeded, whatever tag CellType has
\* assigned, Setup has a routine for the tag, Field has an evaluator for it
\* and Field never returns -10.
C20_EveryTagHasItsRoutines ==
  last.op = "Field" =>
    /\ caf.m_scellType \in SetupTypes
    /\ caf.m_cellType \in FieldTypes
    /\ last.out.status # -10

\* The sum of the charges of the wires.
TotalCharge(s) == SumTo([k \in 1..s.m_nWires |-> s.m_w[k].e], s.m_nWires)

\* The potential the charges and the reference potential give wire i
\* (1-based) through the capacitance matrix a.
PotentialOfWire(s, a, i) ==
  SumTo([j \in 1..s.m_nWires |-> a[i][j] * s.m_w[j].e], s.m_nWires) + s.m_v0

\* C19: without plane and tube Charge solves the system of N + 1 equations
\* whose extra row and column are ones with the corner 0 and whose extra
\* right-hand side is 0; when it succeeds the charges add up to 0, the extra
\* unknown is stored in m_v0 and every wire is at its voltage.  With a
\* plane or the tube the system has N equations and m_v0 is 0.
C19_ChargeSystem ==
  last.op = "Charge" =>
    IF NoEquipotential(caf)
    THEN /\ last.sys.n = caf.m_nWires + 1
         /\ \A k \in 1..caf.m_nWires :
              /\ last.sys.a[k][caf.m_nWires + 1] = 1
              /\ last.sys.a[caf.m_nWires + 1][k] = 1
              /\ \A j \in 1..caf.m_nWires :
                   last.sys.a[k][j] = last.m_a[k][j]
         /\ last.sys.a[caf.m_nWires + 1][caf.m_nWires + 1] = 0
         /\ last.sys.b[caf.m_nWires + 1] = 0
         /\ last.ok =>
              /\ TotalCharge(caf) = 0
              /\ caf.m_v0 = last.deqinv.b[caf.m_nWires + 1]
              /\ \A k \in 1..caf.m_nWires :
                   PotentialOfWire(caf, last.m_a, k) = caf.m_w[k].v
    ELSE /\ last.sys.n = caf.m_nWires
         /\ last.sys.a = last.m_a
         /\ caf.m_v0 = 0

\* Two wires without plane or tube: Charge has succeeded with charges and
\* a reference potential that are not 0.
C19_Witness ==
  /\ last.op = "Charge"
  /\ NoEquipotential(caf)
  /\ last.ok
  /\ caf.m_nWires = 2
  /\ caf.m_w[1].e # 0
  /\ caf.m_v0 # 0

\* The cell as the ordering step of CellCheck finds it (lines 1248-1333
\* have run).
BeforeOrdering(s) == CheckCrossingPlanes(CheckPlanesY(CheckPlanesX(s)))

\* Slot p of the cell a holds what slot q of the cell b holds: coordinate,
\* voltage, label and strips and pixels.
SamePlane(a, p, b, q) ==
  /\ a.m_coplan[p] = b.m_coplan[q]
  /\ a.m_vtplan[p] = b.m_vtplan[q]
  /\ a.planes[p] = b.planes[q]

PlanesOrdered(s, r, lo) ==
  /\ (s.m_ynplan[lo] /\ s.m_ynplan[lo + 1])
       => s.m_coplan[lo] < s.m_coplan[lo + 1]
  /\ \A p \in {lo, lo + 1} :
       s.m_ynplan[p] =>
         \E q \in {lo, lo + 1} : r.m_ynplan[q] /\ SamePlane(s, p, r, q)
  /\ (r.m_ynplan[lo] /\ r.m_ynplan[lo + 1]
        /\ r.m_coplan[lo] > r.m_coplan[lo + 1]
        /\ s.m_ynplan[lo] /\ s.m_ynplan[lo + 1])
       => (SamePlane(s, lo, r, lo + 1) /\ SamePlane(s, lo + 1, r, lo))
  /\ (r.m_ynplan[lo] /\ r.m_ynplan[lo + 1]
        /\ r.m_coplan[lo] = r.m_coplan[lo + 1])
       => ~(s.m_ynplan[lo] /\ s.m_ynplan[lo + 1])

\* C21: after CellCheck two planes of an axis that are both present are in
\* strictly increasing order of their coordinates; every plane that is
\* present has the coordinate, voltage, label and strips of one plane the
\* ordering step found, interchanged planes have exchanged all of them, and
\* of two planes at the same coordinate at most one is left.
C21_PlanesOrdered ==
  last.op = "CellCheck" =>
    /\ PlanesOrdered(caf, BeforeOrdering(last.before), 0)
    /\ PlanesOrdered(caf, BeforeOrdering(last.before), 2)

\* Two x-planes added in decreasing order, the first one with a strip, are
\* both present after CellCheck and have been interchanged.
C21_Witness ==
  /\ last.op = "CellCheck"
  /\ last.before.m_ynplan[0] /\ last.before.m_ynplan[1]
  /\ last.before.m_coplan[0] > last.before.m_coplan[1]
  /\ last.before.planes[0].strips1 # <<>>
  /\ caf.m_ynplan[0] /\ caf.m_ynplan[1]
  /\ caf.planes[1].type = "x1"
  /\ caf.planes[1].strips1 # <<>>
  /\ caf.m_coplan[0] < caf.m_coplan[1]

C23_IprD30AsSetupD30 ==
  (last.op = "Fill" /\ caf.m_scellType = "D3 ") =>
    \A i, j \in 0..(caf.m_nWires - 1) : last.m_sigmat[i, j] = last.m_a[i, j]

\* C24: for a cell of type A and the mode (0, 0) every element of the
\* signal matrix that IprA00 fills equals the element of the capacitance
\* matrix of SetupA00, with no plane, an x-plane, a y-plane or both.
C24_IprA00AsSetupA00 ==
  (last.op = "Fill" /\ caf.m_scellType = "A  ") =>
    \A i, j \in 0..(caf.m_nWires - 1) :
      SameFraction(last.m_sigmat[i, j], last.m_a[i, j])

\* The cell as the numbering step of CellCheck finds it: planes checked and
\* ordered, wires moved to the basic period.
BeforeNumbering(s) ==
  FoldWires(OrderPlanes(OrderPlanes(BeforeOrdering(s), 0), 2))

\* Slot p of the axis is the only plane left and holds what slot q of r held.
OnlyPlane(s, lo, p, r, q) ==
  /\ s.m_ynplan[p]
  /\ ~s.m_ynplan[2 * lo + 1 - p]
  /\ SamePlane(s, p, r, q)

\* For the axis with the slots lo and lo + 1 of the cell r, both planes
\* being present: with more than half of the wires at or below the lower
\* plane only that plane is left, in the upper slot; with fewer than half
\* of the wires at or below the upper plane only that plane is left, in the
\* lower slot.
Renumbered(s, r, lo) ==
  (r.m_ynplan[lo] /\ r.m_ynplan[lo + 1]) =>
    /\ 2 * CountBelow(r, lo) > r.m_nWires
          => OnlyPlane(s, lo, lo + 1, r, lo)
    /\ 2 * CountBelow(r, lo + 1) < r.m_nWires
          => OnlyPlane(s, lo, lo, r, lo + 1)

\* C25: after CellCheck, on each axis that had both planes, the plane on
\* the side of the majority of the wires is the one that is left, and it
\* has been renumbered into the slot of the plane that was dropped, for
\* every number of wires.
C25_MajorityPlaneRenumbered ==
  last.op = "CellCheck" =>
    /\ Renumbered(caf, BeforeNumbering(last.before), 0)
    /\ Renumbered(caf, BeforeNumbering(last.before), 2)

\* C26: after SetupPlaneSignals the charge m_qplane[p][j] of every plane p
\* that is present, an x-plane or a y-plane alike, is the sum over the wires
\* i of m_sigmat[i][j] times the weighting voltage of wire i for plane p,
\* and the charge m_qplane[4][j] of a tube is minus the sum over i of
\* m_sigmat[i][j].
C26_PlaneCharges ==
  last.op = "SetupPlaneSignals" =>
    \A j \in 0..(caf.m_nWires - 1) :
      /\ \A p \in 0..3 :
           caf.m_ynplan[p] =>
             last.m_qplane[p][j] = QplaneX(caf, last.m_sigmat, p, j)
      /\ caf.m_tube =>
           last.m_qplane[4][j]
             = -SumTo([i \in 1..caf.m_nWires |-> last.m_sigmat[i][j + 1]],
                      caf.m_nWires)

\* C27: IsInTrapRadius returns true only if the point, moved to the basic
\* cell, lies within nTrap wire radii of a wire whose charge e has the sign
\* opposite to q (q * e < 0); a wire with a charge of the same sign or with
\* no charge does not make it true.
C27_TrappedByOppositeCharge ==
  (last.op = "IsInTrapRadius" /\ last.out.trapped) =>
    \E i \in 0..(caf.m_nWires - 1) :
      /\ last.qin * Wire(caf, i).e < 0
      /\ InTrapRadius(Wire(caf, i),
                      FoldedPoint(caf, last.xin, last.yin))

\* C28: in every reachable state m_nWires is the length of m_w, so that the
\* entries 0 .. m_nWires - 1 are all the wires the vector holds: the wires
\* added and not removed, with none left behind them, also after a
\* CellCheck that removed wires and further AddWire calls.
C28_WireCountIsLength == caf.m_nWires = Len(caf.m_w)

\* C30: GetPlaneX(i) returns true exactly for i < GetNumberOfPlanesX(), and
\* GetPlaneY(i) exactly for i < GetNumberOfPlanesY(); the coordinate,
\* voltage and label returned are those of a plane that is present on that
\* axis, also after CellCheck has removed or renumbered a plane.
C30_GetPlaneMatchesCount ==
  last.op = "GetPlane" =>
    /\ last.out.ok <=> last.i < last.count
    /\ last.out.ok =>
         \E p \in {last.lo, last.lo + 1} :
           /\ caf.m_ynplan[p]
           /\ last.out.co = caf.m_coplan[p]
           /\ last.out.v = caf.m_vtplan[p]
           /\ last.out.label = caf.planes[p].type

\* The cell with the only plane of the axis lo, lo + 1 in the other slot.
OtherSlot(s, lo) ==
  IF s.m_ynplan[lo] THEN MoveToUpper(s, lo) ELSE MoveToLower(s, lo)

\* C29: the type CellType gives to a cell with exactly one plane on an axis
\* does not depend on the slot that holds the plane: with the plane in the
\* other slot of the axis, and the periodicities and the planes of the
\* other axis as they are, CellType gives the same type.
C29_TypeIgnoresSlot ==
  last.op = "CellType" =>
    \A lo \in {0, 2} :
      (caf.m_ynplan[lo] # caf.m_ynplan[lo + 1]) =>
        /\ CellType(OtherSlot(caf, lo)).ok = last.ok
        /\ CellType(OtherSlot(caf, lo)).s.m_scellType = caf.m_scellType

====
